---- MODULE Spec2Model ----
(***************************************************************************)
(* Model of the migration tool's two cores:                                *)
(*   - the LangGraph planning workflow (src/workflow/langgraph_workflow.py) *)
(*     over one MigrationState record (src/workflow/migration_state.py);   *)
(*   - section-aware retrieval (src/core/vector_retrieval.py).             *)
(*                                                                         *)
(* Python strings are sequences of one-character strings, so that strip,   *)
(* replace, startswith, regular-expression search and JSON parsing are     *)
(* computed on the text.  The back-quote character is written "BQ".        *)
(***************************************************************************)
EXTENDS Integers, Sequences, FiniteSets, TLC

VARIABLES
    pc,          \* where the run is: a node name, "caller", "END" or "raised"
    state,       \* the MigrationState object threaded through the stages
    db,          \* rows of the context_units table, in query order
    executed,    \* history: the nodes the compiled workflow has started, in order
    last,        \* history: the stage function called last, and what it received
    calls,       \* number of stage functions a direct caller has invoked
    writers,     \* history: per field, the stages that have changed its value
    index,       \* the vector index on disk: its chunks
    rq,          \* the retrieval request served, with the rankings it met
    result,      \* what retrieve_context_by_section computed and returned
    ranked,      \* what the embedding service has answered so far, per query text
    flat,        \* history: the last retrieve_context call and an earlier one
    repos,       \* the local clones under repos/: per version, none or a working tree
    update       \* history: the runs of main_update_context and how the last one went

vars == <<pc, state, db, executed, last, calls, writers, index, rq, result,
          ranked, flat,
         repos, update>>

(***************************************************************************)
(* Bounds of the model.                                                    *)
(***************************************************************************)
MaxCalls == 2     \* stage functions invoked by a direct caller
MaxFrags == 2     \* fragments concatenated into a retrieval query
MaxIndex == 2     \* chunks of a small vector index
MaxK == 2         \* largest k_search / k_pick tried

(***************************************************************************)
(* Characters and generic string helpers.                                  *)
(***************************************************************************)
Min(a, b) == IF a < b THEN a ELSE b
Max(a, b) == IF a > b THEN a ELSE b

\* the elements of a sequence
Range(q) == {q[i] : i \in 1..Len(q)}

Whitespace == {" ", "\n", "\t", "\r"}
Digits == {"0", "1", "2", "3", "4", "5", "6", "7", "8", "9"}

UpperLetters ==
    <<"A", "B", "C", "D", "E", "F", "G", "H", "I", "J", "K", "L", "M",
      "N", "O", "P", "Q", "R", "S", "T", "U", "V", "W", "X", "Y", "Z">>
LowerOfUpper ==
    <<"a", "b", "c", "d", "e", "f", "g", "h", "i", "j", "k", "l", "m",
      "n", "o", "p", "q", "r", "s", "t", "u", "v", "w", "x", "y", "z">>

LowerLetters == Range(LowerOfUpper)

\* str.upper() on one character
UpperChar(c) ==
    IF \E i \in 1..26 : LowerOfUpper[i] = c
    THEN UpperLetters[CHOOSE i \in 1..26 : LowerOfUpper[i] = c]
    ELSE c

Upper(s) == [i \in 1..Len(s) |-> UpperChar(s[i])]

\* str.lower() on one character
LowerChar(c) ==
    IF \E i \in 1..26 : UpperLetters[i] = c
    THEN LowerOfUpper[CHOOSE i \in 1..26 : UpperLetters[i] = c]
    ELSE c

Lower(s) == [i \in 1..Len(s) |-> LowerChar(s[i])]

\* s[i:] starts with the text p
HasAt(s, i, p) ==
    /\ i >= 1
    /\ i + Len(p) - 1 <= Len(s)
    /\ \A k \in 1..Len(p) : s[i + k - 1] = p[k]

StartsWith(s, p) == HasAt(s, 1, p)

\* p in s
Contains(s, p) == \E i \in 1..(Len(s) + 1) : HasAt(s, i, p)

\* index of the first occurrence of p in s at or after i, 0 when there is none
Find(s, p, i) ==
    IF \E j \in i..(Len(s) + 1) : HasAt(s, j, p)
    THEN CHOOSE j \in i..(Len(s) + 1) :
             HasAt(s, j, p) /\ \A k \in i..(j - 1) : ~HasAt(s, k, p)
    ELSE 0

\* str.strip(chars): drop leading and trailing characters that are in chars
StripChars(s, chars) ==
    IF \A i \in 1..Len(s) : s[i] \in chars
    THEN <<>>
    ELSE LET lo == CHOOSE i \in 1..Len(s) :
                       s[i] \notin chars /\ \A j \in 1..(i - 1) : s[j] \in chars
             hi == CHOOSE i \in 1..Len(s) :
                       s[i] \notin chars /\ \A j \in (i + 1)..Len(s) : s[j] \in chars
         IN SubSeq(s, lo, hi)

\* str.strip()
Strip(s) == StripChars(s, Whitespace)

\* str.replace(old, new): every non-overlapping occurrence, left to right
RECURSIVE Replace(_, _, _)
Replace(s, old, new) ==
    IF s = <<>> THEN <<>>
    ELSE IF HasAt(s, 1, old)
         THEN new \o Replace(SubSeq(s, Len(old) + 1, Len(s)), old, new)
         ELSE <<s[1]>> \o Replace(Tail(s), old, new)

\* str.splitlines() for texts whose only line break is "\n"
RECURSIVE SplitLines(_)
SplitLines(s) ==
    IF s = <<>> THEN <<>>
    ELSE LET nl == Find(s, <<"\n">>, 1)
         IN IF nl = 0 THEN <<s>>
            ELSE <<SubSeq(s, 1, nl - 1)>> \o SplitLines(SubSeq(s, nl + 1, Len(s)))

(***************************************************************************)
(* Python/JSON values.  Every value is a record of one shape, so that      *)
(* {} and [] differ and values of different types compare safely:          *)
(*   kind  "object" | "array" | "string" | "number" | "bool" | "null"      *)
(*   keys  the keys of an object, in insertion order                       *)
(*   vals  the values of an object (parallel to keys) or array items       *)
(*   lit   the text of a string, number or literal                         *)
(***************************************************************************)
JObj(ks, vs) == [kind |-> "object", keys |-> ks, vals |-> vs, lit |-> <<>>]
JArr(vs) == [kind |-> "array", keys |-> <<>>, vals |-> vs, lit |-> <<>>]
JStr(s) == [kind |-> "string", keys |-> <<>>, vals |-> <<>>, lit |-> s]
JNum(s) == [kind |-> "number", keys |-> <<>>, vals |-> <<>>, lit |-> s]
JBool(s) == [kind |-> "bool", keys |-> <<>>, vals |-> <<>>, lit |-> s]
JNull == [kind |-> "null", keys |-> <<>>, vals |-> <<>>, lit |-> <<>>]
EmptyDict == JObj(<<>>, <<>>)
EmptyList == JArr(<<>>)
EmptyStr == JStr(<<>>)

IsDict(v) == v.kind = "object"

\* key in d
HasKey(d, k) == \E i \in 1..Len(d.keys) : d.keys[i] = k

KeyIndex(d, k) == CHOOSE i \in 1..Len(d.keys) : d.keys[i] = k

\* d.get(k, default)
DictGet(d, k, default) == IF HasKey(d, k) THEN d.vals[KeyIndex(d, k)] ELSE default

\* d[k] = v : an existing key keeps its position, a new key goes last
DictSet(d, k, v) ==
    IF HasKey(d, k)
    THEN [d EXCEPT !.vals[KeyIndex(d, k)] = v]
    ELSE [d EXCEPT !.keys = Append(d.keys, k), !.vals = Append(d.vals, v)]

\* Python truthiness of a value
Truthy(v) ==
    CASE v.kind = "object" -> v.keys # <<>>
      [] v.kind = "array" -> v.vals # <<>>
      [] v.kind = "string" -> v.lit # <<>>
      [] v.kind = "number" -> v.lit # <<"0">>
      [] v.kind = "bool" -> v.lit = <<"t", "r", "u", "e">>
      [] OTHER -> FALSE

(***************************************************************************)
(* json.loads, computed on the text: objects, arrays, strings without      *)
(* escapes, integers and the literals true / false / null, with JSON       *)
(* whitespace (the texts of this model use no fractions, exponents or      *)
(* escapes).  A result is [ok, value, pos]; ok = FALSE stands for the      *)
(* JSONDecodeError json.loads raises.                                      *)
(***************************************************************************)
ParseFail == [ok |-> FALSE, value |-> JNull, pos |-> 0]
ParseOk(v, p) == [ok |-> TRUE, value |-> v, pos |-> p]

\* the character at position i, "" past the end of the text
At(s, i) == IF i >= 1 /\ i <= Len(s) THEN s[i] ELSE ""

SkipWs(s, i) ==
    IF \E j \in i..Len(s) : s[j] \notin Whitespace
    THEN CHOOSE j \in i..Len(s) :
             s[j] \notin Whitespace /\ \A k \in i..(j - 1) : s[k] \in Whitespace
    ELSE Len(s) + 1

\* a string literal opening at position i
ParseString(s, i) ==
    LET close == Find(s, <<"\"">>, i + 1)
    IN IF At(s, i) # "\"" \/ close = 0 THEN ParseFail
       ELSE IF \E k \in (i + 1)..(close - 1) : s[k] \in {"\\", "\n", "\t", "\r"}
            THEN ParseFail
            ELSE ParseOk(JStr(SubSeq(s, i + 1, close - 1)), close + 1)

\* an integer literal starting at position i
ParseNumber(s, i) ==
    LET d == IF At(s, i) = "-" THEN i + 1 ELSE i
        stop == IF \E j \in d..Len(s) : s[j] \notin Digits
                THEN CHOOSE j \in d..Len(s) :
                         s[j] \notin Digits /\ \A k \in d..(j - 1) : s[k] \in Digits
                ELSE Len(s) + 1
    IN IF stop = d \/ (stop > d + 1 /\ s[d] = "0")
       THEN ParseFail
       ELSE ParseOk(JNum(SubSeq(s, i, stop - 1)), stop)

LitTrue == <<"t", "r", "u", "e">>
LitFalse == <<"f", "a", "l", "s", "e">>
LitNull == <<"n", "u", "l", "l">>

RECURSIVE ParseValue(_, _), ParseElems(_, _, _), ParseMembers(_, _, _)

\* the JSON value starting at or after position i
ParseValue(s, i) ==
    LET j == SkipWs(s, i)
        c == At(s, j)
    IN CASE c = "{" ->
              IF At(s, SkipWs(s, j + 1)) = "}"
              THEN ParseOk(EmptyDict, SkipWs(s, j + 1) + 1)
              ELSE ParseMembers(s, j + 1, EmptyDict)
         [] c = "[" ->
              IF At(s, SkipWs(s, j + 1)) = "]"
              THEN ParseOk(EmptyList, SkipWs(s, j + 1) + 1)
              ELSE ParseElems(s, j + 1, <<>>)
         [] c = "\"" -> ParseString(s, j)
         [] c \in Digits \cup {"-"} -> ParseNumber(s, j)
         [] c = "t" -> IF HasAt(s, j, LitTrue)
                       THEN ParseOk(JBool(LitTrue), j + 4) ELSE ParseFail
         [] c = "f" -> IF HasAt(s, j, LitFalse)
                       THEN ParseOk(JBool(LitFalse), j + 5) ELSE ParseFail
         [] c = "n" -> IF HasAt(s, j, LitNull)
                       THEN ParseOk(JNull, j + 4) ELSE ParseFail
         [] OTHER -> ParseFail

\* the items of an array after "[" or ",", up to the closing "]"
ParseElems(s, i, acc) ==
    LET r == ParseValue(s, i)
        k == SkipWs(s, r.pos)
    IN IF ~r.ok THEN ParseFail
       ELSE CASE At(s, k) = "," -> ParseElems(s, k + 1, Append(acc, r.value))
              [] At(s, k) = "]" -> ParseOk(JArr(Append(acc, r.value)), k + 1)
              [] OTHER -> ParseFail

\* the members of an object after "{" or ",", up to the closing "}"
ParseMembers(s, i, obj) ==
    LET key == ParseString(s, SkipWs(s, i))
        colon == SkipWs(s, key.pos)
        r == ParseValue(s, colon + 1)
        k == SkipWs(s, r.pos)
    IN IF ~key.ok \/ At(s, colon) # ":" THEN ParseFail
       ELSE IF ~r.ok THEN ParseFail
       ELSE CASE At(s, k) = "," ->
                   ParseMembers(s, k + 1, DictSet(obj, key.value.lit, r.value))
              [] At(s, k) = "}" ->
                   ParseOk(DictSet(obj, key.value.lit, r.value), k + 1)
              [] OTHER -> ParseFail

\* json.loads(text): one value and nothing but whitespace after it
json_loads(text) ==
    LET r == ParseValue(text, 1)
    IN IF r.ok /\ SkipWs(text, r.pos) > Len(text) THEN r ELSE ParseFail

(***************************************************************************)
(* Text constants of the program.                                          *)
(***************************************************************************)
K_documentation == <<"d", "o", "c", "u", "m", "e", "n", "t", "a", "t", "i", "o", "n">>
K_props == <<"p", "r", "o", "p", "s">>
K_constraints == <<"c", "o", "n", "s", "t", "r", "a", "i", "n", "t", "s">>
S_tsx == <<".", "t", "s", "x">>
S_props == <<"p", "r", "o", "p", "s">>
S_property == <<"p", "r", "o", "p", "e", "r", "t", "y">>
S_properties == <<"p", "r", "o", "p", "e", "r", "t", "i", "e", "s">>
S_PENDING == <<"P", "E", "N", "D", "I", "N", "G">>
S_code_snippet == <<"c", "o", "d", "e", "_", "s", "n", "i", "p", "p", "e", "t">>
S_html == <<"h", "t", "m", "l">>
Fence == <<"BQ", "BQ", "BQ">>

(***************************************************************************)
(* MigrationState: the fields and their defaults.                          *)
(***************************************************************************)
Fields ==
    {"v1_components", "v2_components", "component_map", "constraints",
     "migration_plan", "verification_rules", "current_file", "modified_code",
     "action"}

MigrationState ==
    [v1_components |-> EmptyDict,
     v2_components |-> EmptyDict,
     component_map |-> EmptyDict,
     constraints |-> EmptyList,
     migration_plan |-> EmptyList,
     verification_rules |-> EmptyList,
     current_file |-> JNull,
     modified_code |-> EmptyDict,
     action |-> JStr(S_PENDING)]

\* what a stage function hands back: the state object, whether it returned
\* (ok) or raised, and whether it called cached_llm_invoke
Returned(s, llm) == [ok |-> TRUE, state |-> s, llm |-> llm]
Raised(s, llm) == [ok |-> FALSE, state |-> s, llm |-> llm]

(***************************************************************************)
(* load_context: read the context units by type and attach the docs.       *)
(***************************************************************************)
\* content.strip().startswith("[") or content.strip().startswith("{")
LooksLikeJson(content) ==
    StartsWith(Strip(content), <<"[">>) \/ StartsWith(Strip(content), <<"{">>)

\* the dict name -> content built from the rows of one type, rows taken in
\* query order; a row whose JSON does not parse is reported and left out
RECURSIVE load_units_from(_, _, _, _)
load_units_from(rows, type_, i, units) ==
    IF i > Len(rows) THEN units
    ELSE IF rows[i].type # type_ THEN load_units_from(rows, type_, i + 1, units)
    ELSE IF LooksLikeJson(rows[i].content)
         THEN LET r == json_loads(rows[i].content)
              IN IF r.ok
                 THEN load_units_from(rows, type_, i + 1,
                                      DictSet(units, rows[i].name, r.value))
                 ELSE load_units_from(rows, type_, i + 1, units)
         ELSE load_units_from(rows, type_, i + 1,
                              DictSet(units, rows[i].name, JStr(rows[i].content)))

load_context_units(rows, type_) == load_units_from(rows, type_, 1, EmptyDict)

\* for name, comp in components.items(): doc = docs.get(name.replace(".tsx", ""), "");
\* comp["documentation"] = doc when comp is a dict
attach_docs(components, docs) ==
    [components EXCEPT !.vals =
        [i \in 1..Len(components.vals) |->
            LET comp == components.vals[i]
                doc == DictGet(docs, Replace(components.keys[i], S_tsx, <<>>), EmptyStr)
            IN IF IsDict(comp) THEN DictSet(comp, K_documentation, doc) ELSE comp]]

\* the value load_context gives state.constraints ("flatten if needed")
loaded_constraints(constraints, prior) ==
    IF Truthy(constraints)
    THEN IF IsDict(constraints.vals[1]) /\ HasKey(constraints.vals[1], K_constraints)
         THEN DictGet(constraints.vals[1], K_constraints, JNull)
         ELSE JArr(constraints.vals)
    ELSE prior

load_context(s, rows) ==
    LET v1_components == load_context_units(rows, "v1_components")
        v2_components == load_context_units(rows, "v2_components")
        v1_docs == load_context_units(rows, "v1_docs")
        v2_docs == load_context_units(rows, "v2_docs")
        migration_plan == load_context_units(rows, "migration_plan")
        verification_rules == load_context_units(rows, "verification_rules")
        constraints == load_context_units(rows, "constraints")
    IN Returned([s EXCEPT
                   !.v1_components = attach_docs(v1_components, v1_docs),
                   !.v2_components = attach_docs(v2_components, v2_docs),
                   !.migration_plan = JArr(migration_plan.vals),
                   !.verification_rules = JArr(verification_rules.vals),
                   !.constraints = loaded_constraints(constraints, s.constraints)],
                FALSE)

(***************************************************************************)
(* analyze_components: rule-based, no model call.                          *)
(***************************************************************************)
\* a collection that takes every line with a colon and "prop" in it and
\* keeps every name
prop_names_any_prop(text) ==
    LET lines == SplitLines(text)
        picked == {i \in 1..Len(lines) :
                      /\ Contains(lines[i], <<":">>)
                      /\ Contains(Lower(lines[i]), <<"p", "r", "o", "p">>)}
    IN {Strip(SubSeq(lines[i], 1, Find(lines[i], <<":">>, 1) - 1)) : i \in picked}

\* the texts extract_props collects into its set for one documentation text
prop_names(text) ==
    LET lines == SplitLines(text)
        picked == {i \in 1..Len(lines) :
                      /\ Contains(lines[i], <<":">>)
                      /\ \/ Contains(Lower(lines[i]), S_props)
                         \/ Contains(Lower(lines[i]), S_property)}
        head(line) == Strip(SubSeq(line, 1, Find(line, <<":">>, 1) - 1))
    IN {h \in {head(lines[i]) : i \in picked} :
           h # <<>> /\ Lower(h) \notin {S_props, S_properties}}

\* every order in which list(set) may hand back the members of a set
Orderings(S) == {q \in [1..Cardinality(S) -> S] : Range(q) = S}

\* extract_props(doc): the lists it may return; none when doc.splitlines()
\* raises AttributeError (doc is truthy and not a str)
extract_props(doc) ==
    IF ~Truthy(doc) THEN {EmptyList}
    ELSE IF doc.kind # "string" THEN {}
    ELSE {JArr([i \in 1..Len(q) |-> JStr(q[i])]) : q \in Orderings(prop_names(doc.lit))}

\* the loop "for comp in components.values()" from component i on: the
\* outcomes [ok, value], ok = FALSE when comp.get or doc.splitlines raised
\* at some component (those before it already carry their props)
RECURSIVE analyze_from(_, _)
analyze_from(components, i) ==
    IF i > Len(components.vals) THEN {[ok |-> TRUE, value |-> components]}
    ELSE LET comp == components.vals[i]
         IN IF ~IsDict(comp) THEN {[ok |-> FALSE, value |-> components]}
            ELSE LET lists == extract_props(DictGet(comp, K_documentation, EmptyStr))
                 IN IF lists = {} THEN {[ok |-> FALSE, value |-> components]}
                    ELSE UNION {analyze_from(
                                   [components EXCEPT
                                       !.vals[i] = DictSet(comp, K_props, l)],
                                   i + 1) : l \in lists}

analyze_components(s) ==
    UNION {IF ~r1.ok
           THEN {Raised([s EXCEPT !.v1_components = r1.value], FALSE)}
           ELSE {IF r2.ok
                 THEN Returned([s EXCEPT !.v1_components = r1.value,
                                         !.v2_components = r2.value], FALSE)
                 ELSE Raised([s EXCEPT !.v1_components = r1.value,
                                       !.v2_components = r2.value], FALSE)
                    : r2 \in analyze_from(s.v2_components, 1)}
              : r1 \in analyze_from(s.v1_components, 1)}

(***************************************************************************)
(* The generative stages: call the model, clean the fences, parse.         *)
(***************************************************************************)
\* the characters of the argument of response.strip("```json\n")
FenceChars == {"BQ", "j", "s", "o", "n", "\n"}

\* response.strip("```json\n").strip("```").strip()
clean_response(resp) == Strip(StripChars(StripChars(resp, FenceChars), {"BQ"}))

\* json.loads(cleaned_response) inside the stage's try block
decode(resp) == json_loads(clean_response(resp))

\* generate_mapping without its try/except
generate_mapping_unguarded(s, resp) ==
    LET r == decode(resp)
    IN IF r.ok THEN Returned([s EXCEPT !.component_map = r.value], TRUE)
       ELSE Raised(s, TRUE)

\* generate_mapping that also resets the constraints
generate_mapping_resets(s, resp) ==
    LET r == decode(resp)
    IN Returned([s EXCEPT !.component_map = IF r.ok THEN r.value ELSE EmptyDict,
                          !.constraints = EmptyList],
                TRUE)

generate_mapping(s, resp) ==
    LET r == decode(resp)
    IN Returned([s EXCEPT !.component_map = IF r.ok THEN r.value ELSE EmptyDict],
                TRUE)

generate_constraints(s, resp) ==
    LET r == decode(resp)
    IN Returned([s EXCEPT !.constraints = IF r.ok THEN r.value ELSE EmptyList],
                TRUE)

\* generate_plan with verify_migration's failure policy (keep the old value)
generate_plan_keep(s, resp) ==
    LET r == decode(resp)
    IN Returned([s EXCEPT !.migration_plan =
                     IF r.ok THEN r.value ELSE s.migration_plan],
                TRUE)

generate_plan(s, resp) ==
    LET r == decode(resp)
    IN Returned([s EXCEPT !.migration_plan = IF r.ok THEN r.value ELSE EmptyList],
                TRUE)

generate_verification_rules(s, resp) ==
    LET r == decode(resp)
    IN Returned([s EXCEPT
                   !.verification_rules = IF r.ok THEN r.value ELSE EmptyList],
                TRUE)

(***************************************************************************)
(* migrate_code and verify_migration (defined, not wired).                 *)
(***************************************************************************)
\* state.current_file and state.modified_code.get(state.current_file)
has_code(s) ==
    /\ Truthy(s.current_file)
    /\ Truthy(DictGet(s.modified_code, s.current_file.lit, JNull))

\* where re.search(r"```(?:html)?\n(.*?)```", response, re.DOTALL) can match
\* from position i: the start of group 1, 0 when it cannot
body_start(resp, i) ==
    IF ~HasAt(resp, i, Fence) THEN 0
    ELSE LET b == IF HasAt(resp, i + 3, S_html \o <<"\n">>) THEN i + 8
                  ELSE IF HasAt(resp, i + 3, <<"\n">>) THEN i + 4 ELSE 0
         IN IF b # 0 /\ Find(resp, Fence, b) # 0 THEN b ELSE 0

\* match.group(1).strip() if match else response.strip()
extract_code(resp) ==
    IF \E i \in 1..Len(resp) : body_start(resp, i) # 0
    THEN LET i == CHOOSE k \in 1..Len(resp) :
                      body_start(resp, k) # 0
                      /\ \A m \in 1..(k - 1) : body_start(resp, m) = 0
             b == body_start(resp, i)
         IN Strip(SubSeq(resp, b, Find(resp, Fence, b) - 1))
    ELSE Strip(resp)

\* migrate_code without its guard: it writes whatever the state holds
migrate_code_unguarded(s, resp) ==
    Returned([s EXCEPT !.modified_code =
                 DictSet(@, s.current_file.lit, JStr(extract_code(resp)))],
             TRUE)

migrate_code(s, resp) ==
    IF ~has_code(s) THEN Returned(s, FALSE)
    ELSE Returned([s EXCEPT !.modified_code =
                      DictSet(@, s.current_file.lit, JStr(extract_code(resp)))],
                  TRUE)

\* verify_migration with the Generate* failure policy (reset to empty)
verify_migration_reset(s, resp) ==
    IF ~has_code(s) THEN Returned(s, FALSE)
    ELSE LET r == decode(resp)
         IN Returned([s EXCEPT !.verification_rules =
                          IF r.ok THEN r.value ELSE EmptyList],
                     TRUE)

\* verify_migration that appends the parsed results to the rules it had
verify_migration_merges(s, resp) ==
    IF ~has_code(s) THEN Returned(s, FALSE)
    ELSE LET r == decode(resp)
         IN Returned([s EXCEPT !.verification_rules =
                          IF r.ok
                          THEN (IF r.value.kind = "array" /\ @.kind = "array"
                                THEN JArr(@.vals \o r.value.vals) ELSE r.value)
                          ELSE s.verification_rules],
                     TRUE)

verify_migration(s, resp) ==
    IF ~has_code(s) THEN Returned(s, FALSE)
    ELSE LET r == decode(resp)
         IN Returned([s EXCEPT !.verification_rules =
                          IF r.ok THEN r.value ELSE s.verification_rules],
                     TRUE)

(***************************************************************************)
(* Inputs: model responses, and rows of the context_units table.           *)
(***************************************************************************)
R_map ==
    <<"{", "\"", "m", "o", "d", "u", "s", "-", "a", "l", "e", "r", "t", ".", "t", "s", "x", "\"", ":", " ", "{", "\"", "n", "e", "w", "_", "t", "a", "g", "\"", ":", " ", "\"", "m", "o", "d", "u", "s", "-", "w", "c", "-", "a", "l", "e", "r", "t", ".", "t", "s", "x", "\"", "}", "}">>
R_map_other ==
    <<"{", "\"", "A", "l", "e", "r", "t", "\"", ":", " ", "{", "}", "}">>
R_list_fenced ==
    <<"BQ", "BQ", "BQ", "j", "s", "o", "n", "\n", "[", "{", "\"", "r", "u", "l", "e", "\"", ":", " ", "1", "}", "]", "\n", "BQ", "BQ", "BQ">>
R_empty_list ==
    <<"[", "]">>
R_null ==
    <<"n", "u", "l", "l">>
R_prose ==
    <<"S", "o", "r", "r", "y">>
R_code ==
    <<"BQ", "BQ", "BQ", "h", "t", "m", "l", "\n", "<", "m", "o", "d", "u", "s", "-", "w", "c", "-", "a", "l", "e", "r", "t", ">", "<", "/", "m", "o", "d", "u", "s", "-", "w", "c", "-", "a", "l", "e", "r", "t", ">", "\n", "BQ", "BQ", "BQ">>
N_modus_alert_tsx ==
    <<"m", "o", "d", "u", "s", "-", "a", "l", "e", "r", "t", ".", "t", "s", "x">>
N_modus_badge_tsx ==
    <<"m", "o", "d", "u", "s", "-", "b", "a", "d", "g", "e", ".", "t", "s", "x">>
N_modus_alert ==
    <<"m", "o", "d", "u", "s", "-", "a", "l", "e", "r", "t">>
N_modus_wc_alert_tsx ==
    <<"m", "o", "d", "u", "s", "-", "w", "c", "-", "a", "l", "e", "r", "t", ".", "t", "s", "x">>
N_modus_wc_alert ==
    <<"m", "o", "d", "u", "s", "-", "w", "c", "-", "a", "l", "e", "r", "t">>
N_plan ==
    <<"p", "l", "a", "n">>
N_rules ==
    <<"r", "u", "l", "e", "s">>
N_breaking ==
    <<"b", "r", "e", "a", "k", "i", "n", "g">>
N_styling ==
    <<"s", "t", "y", "l", "i", "n", "g">>
T_comp_v1 ==
    <<"{", "\"", "n", "a", "m", "e", "\"", ":", " ", "\"", "m", "o", "d", "u", "s", "-", "a", "l", "e", "r", "t", "\"", ",", " ", "\"", "p", "r", "o", "p", "s", "\"", ":", " ", "[", "]", "}">>
T_comp_v2 ==
    <<"{", "\"", "n", "a", "m", "e", "\"", ":", " ", "\"", "m", "o", "d", "u", "s", "-", "w", "c", "-", "a", "l", "e", "r", "t", "\"", "}">>
T_source_text ==
    <<"e", "x", "p", "o", "r", "t", " ", "c", "l", "a", "s", "s", " ", "M", "o", "d", "u", "s", "A", "l", "e", "r", "t">>
T_broken_json ==
    <<"{", "o", "o", "p", "s">>
T_doc_v1 ==
    <<"P", "r", "o", "p", "s", ":", " ", "l", "i", "s", "t", "\n", "s", "i", "z", "e", ":", " ", "t", "h", "e", " ", "p", "r", "o", "p", "e", "r", "t", "y", " ", "s", "i", "z", "e", "\n", "t", "y", "p", "e", ":", " ", "k", "i", "n", "d", "\n", "i", "c", "o", "n", ":", " ", "a", " ", "p", "r", "o", "p", "\n", " ", "s", "i", "z", "e", " ", ":", " ", "P", "r", "o", "p", "e", "r", "t", "y", " ", "2">>
T_doc_v2 ==
    <<"v", "a", "r", "i", "a", "n", "t", ":", " ", "p", "r", "o", "p", "s", " ", "o", "f", " ", "a", "l", "e", "r", "t", "\n", "c", "o", "l", "o", "r", ":", " ", "P", "r", "o", "p", "e", "r", "t", "y">>
T_doc_json ==
    <<"{", "\"", "s", "u", "m", "m", "a", "r", "y", "\"", ":", " ", "\"", "x", "\"", "}">>
T_plan ==
    <<"[", "{", "\"", "a", "c", "t", "i", "o", "n", "\"", ":", " ", "\"", "S", "t", "e", "p", " ", "1", "\"", "}", "]">>
T_rules ==
    <<"C", "h", "e", "c", "k", " ", "t", "a", "g", "s">>
T_constraints_wrapped ==
    <<"{", "\"", "c", "o", "n", "s", "t", "r", "a", "i", "n", "t", "s", "\"", ":", " ", "[", "{", "\"", "t", "y", "p", "e", "\"", ":", " ", "\"", "b", "r", "e", "a", "k", "i", "n", "g", "\"", "}", "]", "}">>
T_constraint_a ==
    <<"{", "\"", "t", "y", "p", "e", "\"", ":", " ", "\"", "b", "r", "e", "a", "k", "i", "n", "g", "\"", "}">>
T_constraint_b ==
    <<"{", "\"", "t", "y", "p", "e", "\"", ":", " ", "\"", "s", "t", "y", "l", "i", "n", "g", "\"", "}">>
T_snippet ==
    <<"<", "m", "o", "d", "u", "s", "-", "a", "l", "e", "r", "t", ">", "<", "/", "m", "o", "d", "u", "s", "-", "a", "l", "e", "r", "t", ">">>

\* texts cached_llm_invoke may hand back
LLMResponses ==
    {R_map, R_map_other, R_list_fenced, R_empty_list, R_null, R_prose, R_code}

Row(t, n, c) == [type |-> t, name |-> n, content |-> c]

V1ComponentRows ==
    {<<Row("v1_components", N_modus_alert_tsx, T_comp_v1)>>,
     <<Row("v1_components", N_modus_alert_tsx, T_source_text)>>,
     <<Row("v1_components", N_modus_alert_tsx, T_comp_v1),
       Row("v1_components", N_modus_badge_tsx, T_broken_json)>>}

V1DocRows ==
    {<<>>,
     <<Row("v1_docs", N_modus_alert, T_doc_v1)>>,
     <<Row("v1_docs", N_modus_alert, T_doc_json)>>}

V2Rows ==
    {<<Row("v2_components", N_modus_wc_alert_tsx, T_comp_v2)>>,
     <<Row("v2_components", N_modus_wc_alert_tsx, T_comp_v2),
       Row("v2_docs", N_modus_wc_alert, T_doc_v2)>>}

PlanningRows ==
    {<<>>,
     <<Row("migration_plan", N_plan, T_plan),
       Row("verification_rules", N_rules, T_rules),
       Row("constraints", N_breaking, T_constraints_wrapped)>>,
     <<Row("verification_rules", N_rules, T_rules),
       Row("constraints", N_breaking, T_constraint_a),
       Row("constraints", N_styling, T_constraint_b)>>,
     <<Row("constraints", N_breaking, T_constraints_wrapped),
       Row("constraints", N_styling, T_constraint_b)>>}

\* the state run_workflow hands to workflow.invoke: the default one, or one
\* carrying a code snippet
InitialStates ==
    {MigrationState,
     [MigrationState EXCEPT
         !.current_file = JStr(S_code_snippet),
         !.modified_code = DictSet(EmptyDict, S_code_snippet, JStr(T_snippet))]}

\* the state run_workflow builds for --file when the file is empty
S_file_path == <<"a", ".", "h", "t", "m", "l">>
EmptyFileState ==
    [MigrationState EXCEPT
        !.current_file = JStr(S_file_path),
        !.modified_code = DictSet(EmptyDict, S_file_path, EmptyStr)]

(***************************************************************************)
(* build_workflow: the compiled graph, and the run of workflow.invoke.     *)
(***************************************************************************)
\* build_workflow with the migration and verification nodes and edges wired
build_workflow_with_tail ==
    [nodes |-> {"load_context", "analyze_components", "generate_mapping",
                "generate_constraints", "generate_plan",
                "generate_verification_rules", "migrate_code",
                "verify_migration"},
     edges |-> {<<"load_context", "analyze_components">>,
                <<"analyze_components", "generate_mapping">>,
                <<"generate_mapping", "generate_constraints">>,
                <<"generate_constraints", "generate_plan">>,
                <<"generate_plan", "generate_verification_rules">>,
                <<"generate_verification_rules", "migrate_code">>,
                <<"migrate_code", "verify_migration">>},
     entry |-> "load_context"]

build_workflow ==
    [nodes |-> {"load_context", "analyze_components", "generate_mapping",
                "generate_constraints", "generate_plan",
                "generate_verification_rules"},
     edges |-> {<<"load_context", "analyze_components">>,
                <<"analyze_components", "generate_mapping">>,
                <<"generate_mapping", "generate_constraints">>,
                <<"generate_constraints", "generate_plan">>,
                <<"generate_plan", "generate_verification_rules">>},
     entry |-> "load_context"]

\* the stage functions by name: the outcomes of stage n on state s, with the
\* table rows and the model response it would receive
StageOutcomes(n, s, rows, resp) ==
    CASE n = "load_context" -> {load_context(s, rows)}
      [] n = "analyze_components" -> analyze_components(s)
      [] n = "generate_mapping" -> {generate_mapping(s, resp)}
      [] n = "generate_constraints" -> {generate_constraints(s, resp)}
      [] n = "generate_plan" -> {generate_plan(s, resp)}
      [] n = "generate_verification_rules" -> {generate_verification_rules(s, resp)}
      [] n = "migrate_code" -> {migrate_code(s, resp)}
      [] n = "verify_migration" -> {verify_migration(s, resp)}

\* the record of one call of a stage function
CallRecord(n, out, resp) ==
    [node |-> n, ok |-> out.ok, llm |-> out.llm,
     response |-> IF out.llm THEN resp ELSE <<>>]

NoCall == [node |-> "none", ok |-> TRUE, llm |-> FALSE, response |-> <<>>]

\* the nodes the graph runs after node n: its successors, END when it has none
Successors(g, n) ==
    IF \E e \in g.edges : e[1] = n
    THEN {e[2] : e \in {d \in g.edges : d[1] = n}}
    ELSE {"END"}

\* writers after stage n turned state s into state t
Written(w, n, s, t) ==
    [f \in Fields |-> IF t[f] # s[f] THEN w[f] \cup {n} ELSE w[f]]

NoIndex == [chunks |-> {}, filler |-> 0]
NoRequest == [served |-> FALSE]
NoResult == [served |-> FALSE]
NoFlatCall == [served |-> FALSE]
NoFlat == [last |-> NoFlatCall, seen |-> NoFlatCall]
NoTree == [cloned |-> FALSE]
NoRepos == [v1 |-> NoTree, v2 |-> NoTree]
NoUpdate == [runs |-> 0, status |-> "none", opened |-> FALSE, git |-> <<"none", "none">>]

Init ==
    /\ pc = build_workflow.entry
    /\ state \in InitialStates \cup {EmptyFileState}
    /\ \E a \in V1ComponentRows, b \in V1DocRows, c \in V2Rows, d \in PlanningRows :
          db = a \o b \o c \o d
    /\ executed = <<>>
    /\ last = NoCall
    /\ calls = 0
    /\ writers = [f \in Fields |-> {}]
    /\ index = NoIndex
    /\ rq = NoRequest
    /\ result = NoResult
    /\ ranked = {}
    /\ flat = NoFlat
    /\ repos = NoRepos
    /\ update = NoUpdate

\* the compiled workflow runs node n to completion and moves on along the
\* edge; an exception in the node ends the run
RunNode(n) ==
    /\ pc = n
    /\ \E resp \in LLMResponses :
         \E out \in StageOutcomes(n, state, db, resp) :
            /\ state' = out.state
            /\ last' = CallRecord(n, out, resp)
            /\ writers' = Written(writers, n, state, out.state)
            /\ executed' = Append(executed, n)
            /\ IF out.ok
               THEN pc' \in Successors(build_workflow, n)
               ELSE pc' = "raised"
    /\ UNCHANGED <<db, calls, index, rq, result, ranked, flat, repos, update>>

Next == \E n \in build_workflow.nodes : RunNode(n)

Spec == Init /\ [][Next]_vars

(***************************************************************************)
(* The stage functions called one at a time by a caller of the module      *)
(* (all eight are importable; migrate_code and verify_migration are in no  *)
(* graph).                                                                 *)
(***************************************************************************)
\* the table of a populated store: components with docs, and planning rows
ComponentRows ==
    <<Row("v1_components", N_modus_alert_tsx, T_comp_v1),
      Row("v1_docs", N_modus_alert, T_doc_v1),
      Row("v2_components", N_modus_wc_alert_tsx, T_comp_v2)>>

InitStages ==
    /\ pc = "caller"
    /\ state \in InitialStates \cup {EmptyFileState}
    /\ \E d \in PlanningRows : db = ComponentRows \o d
    /\ executed = <<>>
    /\ last = NoCall
    /\ calls = 0
    /\ writers = [f \in Fields |-> {}]
    /\ index = NoIndex
    /\ rq = NoRequest
    /\ result = NoResult
    /\ ranked = {}
    /\ flat = NoFlat
    /\ repos = NoRepos
    /\ update = NoUpdate

CallStage(n) ==
    /\ pc = "caller"
    /\ calls < MaxCalls
    /\ \E resp \in LLMResponses :
         \E out \in StageOutcomes(n, state, db, resp) :
            /\ state' = out.state
            /\ last' = CallRecord(n, out, resp)
            /\ writers' = Written(writers, n, state, out.state)
            /\ pc' = IF out.ok THEN "caller" ELSE "raised"
    /\ calls' = calls + 1
    /\ UNCHANGED <<db, executed, index, rq, result, ranked, flat, repos, update>>

CallLoadContext == CallStage("load_context")
CallAnalyzeComponents == CallStage("analyze_components")
CallGenerateMapping == CallStage("generate_mapping")
CallGenerateConstraints == CallStage("generate_constraints")
CallGeneratePlan == CallStage("generate_plan")
CallGenerateVerificationRules == CallStage("generate_verification_rules")
CallMigrateCode == CallStage("migrate_code")
CallVerifyMigration == CallStage("verify_migration")

NextStages ==
    \/ CallLoadContext
    \/ CallAnalyzeComponents
    \/ CallGenerateMapping
    \/ CallGenerateConstraints
    \/ CallGeneratePlan
    \/ CallGenerateVerificationRules
    \/ CallMigrateCode
    \/ CallVerifyMigration

SpecStages == InitStages /\ [][NextStages]_vars

(***************************************************************************)
(* Properties of the workflow.                                             *)
(***************************************************************************)
StageOrder ==
    <<"load_context", "analyze_components", "generate_mapping",
      "generate_constraints", "generate_plan", "generate_verification_rules">>

\* the response the last call received does not parse after fence stripping
LastUnparsable == last.llm /\ ~decode(last.response).ok

\* the rows of one type in the table
RowsOfType(t) == {i \in 1..Len(db) : db[i].type = t}

\* C1: the default workflow starts at load_context and runs the six wired
\* stages one after the other in the fixed order, each at most once and all
\* six by the time it ends; the node to run next is always the successor of
\* the one that ran last; migrate_code and verify_migration never run.
C1_LinearChain ==
    /\ Len(executed) <= Len(StageOrder)
    /\ \A i \in 1..Len(executed) : executed[i] = StageOrder[i]
    /\ pc \in {"END", "raised"} \cup Range(StageOrder)
    /\ pc \in Range(StageOrder) => pc = StageOrder[Len(executed) + 1]
    /\ pc = "END" => executed = StageOrder
    /\ \A n \in Range(StageOrder) :
          Cardinality({e \in build_workflow.edges : e[1] = n})
              = IF n = "generate_verification_rules" THEN 0 ELSE 1

C1_Witness ==
    /\ pc = "END"
    /\ executed = StageOrder
    /\ last.node = "generate_verification_rules"

\* C2: when the response generate_mapping received does not parse,
\* component_map is the empty dict on return, the stage has not raised, and
\* the workflow's next node is generate_constraints, which returns too.
C2_UnparsableMappingDegrades ==
    (last.node = "generate_mapping" /\ LastUnparsable)
        => /\ state.component_map = EmptyDict
           /\ last.ok
           /\ pc = "generate_constraints"
           /\ \A resp \in LLMResponses :
                 \A out \in StageOutcomes("generate_constraints", state, db, resp) :
                    out.ok

C2_Witness ==
    /\ last.node = "generate_mapping"
    /\ LastUnparsable
    /\ last.response = R_prose
    /\ pc = "generate_constraints"

OwnField(n) ==
    CASE n = "generate_constraints" -> "constraints"
      [] n = "generate_plan" -> "migration_plan"
      [] n = "generate_verification_rules" -> "verification_rules"

\* C3: a step of generate_constraints, generate_plan or
\* generate_verification_rules whose response does not parse leaves the
\* stage's own field equal to the empty list and every other field as it
\* was, and the stage returns.
C3_UnparsableResetsOwnField ==
    [][\A n \in {"generate_constraints", "generate_plan",
                 "generate_verification_rules"} :
          (pc = n /\ executed' = Append(executed, n)
                  /\ last'.llm /\ ~decode(last'.response).ok)
              => /\ state'[OwnField(n)] = EmptyList
                 /\ \A f \in Fields \ {OwnField(n)} : state'[f] = state[f]
                 /\ last'.ok
                 /\ pc' # "raised"]_vars

\* generate_plan received an unparsable response and emptied the plan that
\* load_context had read from the table
C3_Witness ==
    /\ last.node = "generate_plan"
    /\ LastUnparsable
    /\ RowsOfType("migration_plan") # {}
    /\ state.migration_plan = EmptyList
    /\ state.constraints # EmptyList

\* C4: a call of verify_migration that reaches the model and receives an
\* unparsable response leaves verification_rules, and every other field,
\* exactly as before the call.
C4_VerifyKeepsRulesOnFailure ==
    [][(calls' = calls + 1 /\ last'.node = "verify_migration"
            /\ last'.llm /\ ~decode(last'.response).ok)
          => (state' = state /\ last'.ok)]_vars

C4_Witness ==
    /\ last.node = "verify_migration"
    /\ LastUnparsable
    /\ state.verification_rules # EmptyList

\* C5: no stage of the default chain raises, whatever the table holds and
\* whatever the model answers.
C5_NoStageRaises == pc # "raised"

\* C6 as stated: no field other than verification_rules is changed by two
\* different stages, and verification_rules only by
\* generate_verification_rules and verify_migration.
C6_OneWriterPerField ==
    /\ \A f \in Fields \ {"verification_rules"} : Cardinality(writers[f]) <= 1
    /\ writers["verification_rules"]
          \subseteq {"generate_verification_rules", "verify_migration"}

\* the stages that assign each field
AssignedBy(f) ==
    CASE f \in {"v1_components", "v2_components"}
             -> {"load_context", "analyze_components"}
      [] f = "component_map" -> {"generate_mapping"}
      [] f = "constraints" -> {"load_context", "generate_constraints"}
      [] f = "migration_plan" -> {"load_context", "generate_plan"}
      [] f = "verification_rules"
             -> {"load_context", "generate_verification_rules", "verify_migration"}
      [] f = "modified_code" -> {"migrate_code"}
      [] OTHER -> {}

\* C6 amended: component_map is written only by generate_mapping and
\* modified_code only by migrate_code, current_file and action by no stage;
\* constraints and migration_plan are written by load_context and by their
\* Generate stage, verification_rules by load_context,
\* generate_verification_rules and verify_migration, and the component
\* tables by load_context and analyze_components.
C6_WritersPerField == \A f \in Fields : writers[f] \subseteq AssignedBy(f)

\* constraints was written by load_context and then by generate_constraints
C6_Witness ==
    /\ writers["constraints"] = {"load_context", "generate_constraints"}
    /\ last.node = "generate_constraints"

\* the text ends with the file-type suffix
HasSuffix(s, suffix) == HasAt(s, Len(s) - Len(suffix) + 1, suffix)

\* C7: component_map is always a dict whose keys are v1 component file
\* names carrying the .tsx suffix.
C7_ComponentMapKeysNormalized ==
    /\ IsDict(state.component_map)
    /\ \A k \in Range(state.component_map.keys) :
          k \in Range(state.v1_components.keys) /\ HasSuffix(k, S_tsx)

(***************************************************************************)
(* Section-aware retrieval (src/core/vector_retrieval.py).                 *)
(***************************************************************************)
S_lt_modus == <<"<", "m", "o", "d", "u", "s">>
S_wc == <<"-", "w", "c">>
S_Mapping_v1_v2 == <<"M", "a", "p", "p", "i", "n", "g", "_", "v", "1", "_", "v", "2">>
S_Not_Found == <<"N", "o", "t", " ", "F", "o", "u", "n", "d">>
S_v1_component == <<"v", "1", "_", "c", "o", "m", "p", "o", "n", "e", "n", "t">>
S_v2_component == <<"v", "2", "_", "c", "o", "m", "p", "o", "n", "e", "n", "t">>
S_no_content == <<"<", "n", "o", " ", "c", "o", "n", "t", "e", "n", "t", ">">>
S_hashes == <<"#", "#", "#", " ">>
FullScanK == 1000
P_filler == <<"F", "I", "L", "L", "E", "R">>
N_filler == <<"m", "o", "d", "u", "s", "-", "t", "a", "b", "l", "e", ".", "t", "s", "x">>

\* a chunk of the index: metadata["source"] and page_content
Chunk(section, name, text) ==
    [source |-> section \o <<":">> \o name, page_content |-> text]

\* The embedding is opaque: a ranking of the index for one query text is
\* written [lead, perm, trail]: lead filler chunks, then the other chunks in
\* the order perm, then trail filler chunks.
FillerChunk == Chunk(S_v1_component, N_filler, P_filler)

\* n filler chunks in a row
FillerRun == [i \in 1..FullScanK |-> FillerChunk]
Fillers(n) ==
    IF n <= FullScanK THEN SubSeq(FillerRun, 1, n) ELSE [i \in 1..n |-> FillerChunk]

\* db.similarity_search(text, k=k) against ranking r: the k nearest chunks
similarity_search(r, k) ==
    LET total == r.lead + Len(r.perm) + r.trail
        n == Min(Max(k, 0), total)
        nearest == Fillers(Min(r.lead, n)) \o r.perm
    IN IF n <= Len(nearest) THEN SubSeq(nearest, 1, n)
       ELSE nearest \o Fillers(n - Len(nearest))

\* a slice that keeps everything
TakeAll(q, k) == q

\* seq[:k]
Slice(q, k) ==
    IF k >= 0 THEN SubSeq(q, 1, Min(k, Len(q)))
    ELSE SubSeq(q, 1, Max(Len(q) + k, 0))

\* [doc for doc in docs if doc.metadata["source"] == source_key]
WithSource(docs, source_key) == SelectSeq(docs, LAMBDA d : d.source = source_key)

TagChars == LowerLetters \cup {"-"}

\* the last position of the longest run of [a-z-] starting at j
RunEnd(s, j) ==
    IF \E k \in j..Len(s) : s[k] \notin TagChars
    THEN (CHOOSE k \in j..Len(s) :
              s[k] \notin TagChars /\ \A m \in j..(k - 1) : s[m] \in TagChars) - 1
    ELSE Len(s)

\* where a match of <(modus(?:-wc)?-[a-z-]+) starting at i ends, 0 for no
\* match: first with the optional -wc taken, then without it
MatchEnd(s, i) ==
    IF ~HasAt(s, i, S_lt_modus) THEN 0
    ELSE IF HasAt(s, i + 6, S_wc \o <<"-">>) /\ At(s, i + 10) \in TagChars
         THEN RunEnd(s, i + 10)
         ELSE IF At(s, i + 6) = "-" /\ At(s, i + 7) \in TagChars
              THEN RunEnd(s, i + 7)
              ELSE 0

\* re.findall(r"<(modus(?:-wc)?-[a-z-]+)", code): group 1 of every match,
\* scanning left to right without overlap
RECURSIVE findall_from(_, _)
findall_from(s, i) ==
    IF i > Len(s) THEN <<>>
    ELSE LET e == IF s[i] = "<" THEN MatchEnd(s, i) ELSE 0
         IN IF e # 0
            THEN <<SubSeq(s, i + 1, e)>> \o findall_from(s, e + 1)
            ELSE findall_from(s, i + 1)

findall_tags(code) == findall_from(code, 1)

\* list(dict.fromkeys(raw_tags)) that keeps every occurrence
keep_all(raw_tags) == raw_tags

\* list(dict.fromkeys(raw_tags)): first occurrences, in order
RECURSIVE fromkeys(_)
fromkeys(raw_tags) ==
    IF raw_tags = <<>> THEN <<>>
    ELSE LET init == fromkeys(SubSeq(raw_tags, 1, Len(raw_tags) - 1))
             x == raw_tags[Len(raw_tags)]
         IN IF x \in Range(init) THEN init ELSE Append(init, x)

\* the sentinel test written with the spelling "NotFound"
has_v2_target_nospace(v2_file) == Truthy(v2_file) /\ v2_file # JStr(<<"N", "o", "t", "F", "o", "u", "n", "d">>)

\* v2_file and v2_file != "Not Found"
has_v2_target(v2_file) == Truthy(v2_file) /\ v2_file # JStr(S_Not_Found)

\* a lookup that never finds a mapping
mapping_ignored(st) == EmptyDict

\* state.get("Mapping_v1_v2", {}) if state else {}
mapping_of(st) ==
    IF Truthy(st) THEN DictGet(st, S_Mapping_v1_v2, EmptyDict) ELSE EmptyDict

\* a loop body whose v1 branch searches the whole index instead of the candidates
tag_hits_v1_scan(tag, mapping, all_results, by_empty, k_pick) ==
    LET v1_key == tag \o S_tsx
        v2_file == DictGet(mapping, v1_key, JNull)
        source_key == S_v2_component \o <<":">> \o v2_file.lit
        exact_hits == WithSource(all_results, source_key)
        scan == has_v2_target(v2_file) /\ exact_hits = <<>>
        found == IF scan
                 THEN WithSource(similarity_search(by_empty, FullScanK), source_key)
                 ELSE exact_hits
        v1_hits == WithSource(similarity_search(by_empty, FullScanK),
                              S_v1_component \o <<":">> \o v1_key)
    IN [tag |-> tag,
        scanned |-> scan,
        v2 |-> IF has_v2_target(v2_file) THEN Slice(found, k_pick) ELSE <<>>,
        v1 |-> Slice(v1_hits, k_pick)]

\* a loop body that runs the full scan for every mapped tag, candidates or not
tag_hits_always_scan(tag, mapping, all_results, by_empty, k_pick) ==
    LET v1_key == tag \o S_tsx
        v2_file == DictGet(mapping, v1_key, JNull)
        source_key == S_v2_component \o <<":">> \o v2_file.lit
        found == WithSource(similarity_search(by_empty, FullScanK), source_key)
        v1_hits == WithSource(all_results, S_v1_component \o <<":">> \o v1_key)
    IN [tag |-> tag,
        scanned |-> has_v2_target(v2_file),
        v2 |-> IF has_v2_target(v2_file) THEN Slice(found, k_pick) ELSE <<>>,
        v1 |-> Slice(v1_hits, k_pick)]

\* one pass of the loop "for tag in tags": what the tag adds to each bucket
\* and whether the fallback scan ran
tag_hits(tag, mapping, all_results, by_empty, k_pick) ==
    LET v1_key == tag \o S_tsx
        v2_file == DictGet(mapping, v1_key, JNull)
        source_key == S_v2_component \o <<":">> \o v2_file.lit
        exact_hits == WithSource(all_results, source_key)
        scan == has_v2_target(v2_file) /\ exact_hits = <<>>
        found == IF scan
                 THEN WithSource(similarity_search(by_empty, FullScanK), source_key)
                 ELSE exact_hits
        v1_hits == WithSource(all_results, S_v1_component \o <<":">> \o v1_key)
    IN [tag |-> tag,
        scanned |-> scan,
        v2 |-> IF has_v2_target(v2_file) THEN Slice(found, k_pick) ELSE <<>>,
        v1 |-> Slice(v1_hits, k_pick)]

\* the page_content of the picked chunks of all tags, in tag order
RECURSIVE bucket(_, _)
bucket(hits, section) ==
    IF hits = <<>> THEN <<>>
    ELSE LET docs == hits[1][section]
         IN [i \in 1..Len(docs) |-> docs[i].page_content] \o bucket(Tail(hits), section)

\* sep.join(parts)
RECURSIVE Join(_, _)
Join(parts, sep) ==
    IF parts = <<>> THEN <<>>
    ELSE IF Len(parts) = 1 THEN parts[1]
    ELSE parts[1] \o sep \o Join(Tail(parts), sep)

\* section.upper().replace("_", " ")
header(section) == Replace(Upper(section), <<"_">>, <<" ">>)

Header_v1_component == header(S_v1_component)
Header_v2_component == header(S_v2_component)

\* a block that leaves an empty bucket empty
block_no_placeholder(head, snippets) ==
    S_hashes \o head \o <<"\n">> \o Join(snippets, <<"\n", "\n">>)

\* f"### {header}\n" + "\n\n".join(snippets)
block(head, snippets) ==
    S_hashes \o head \o <<"\n">>
        \o Join(IF snippets = <<>> THEN <<S_no_content>> ELSE snippets, <<"\n", "\n">>)

\* ok is FALSE, and nothing is returned, when the call raises AttributeError:
\* state.get on a truthy state that is no dict, or mapping.get in the loop
\* on a mapping that is no dict
retrieve_context_by_section(code, k_search, k_pick, st, by_code, by_empty) ==
    LET all_results == similarity_search(by_code, k_search)
        raw_tags == findall_tags(code)
        tags == fromkeys(raw_tags)
        mapping == mapping_of(st)
        raises == \/ Truthy(st) /\ ~IsDict(st)
                  \/ tags # <<>> /\ ~IsDict(mapping)
        hits == IF raises THEN <<>>
                ELSE [i \in 1..Len(tags) |->
                         tag_hits(tags[i], mapping, all_results, by_empty, k_pick)]
    IN [served |-> TRUE,
        ok |-> ~raises,
        raw_tags |-> raw_tags,
        tags |-> tags,
        hits |-> hits,
        v1_component |-> bucket(hits, "v1"),
        v2_component |-> bucket(hits, "v2"),
        text |-> IF raises THEN <<>>
                 ELSE Join(<<block(Header_v1_component, bucket(hits, "v1")),
                             block(Header_v2_component, bucket(hits, "v2"))>>,
                           <<"\n", "\n">>)]

(***************************************************************************)
(* Retrieval inputs.                                                       *)
(***************************************************************************)
Q_alert_hi == <<"<", "m", "o", "d", "u", "s", "-", "a", "l", "e", "r", "t", " ", "m", "e", "s", "s", "a", "g", "e", "=", "\"", "h", "i", "\"", ">", "<", "/", "m", "o", "d", "u", "s", "-", "a", "l", "e", "r", "t", ">">>
Q_alert_bye == <<"<", "m", "o", "d", "u", "s", "-", "a", "l", "e", "r", "t", " ", "m", "e", "s", "s", "a", "g", "e", "=", "\"", "b", "y", "e", "\"", ">">>
Q_button == <<"<", "d", "i", "v", ">", "<", "m", "o", "d", "u", "s", "-", "b", "u", "t", "t", "o", "n", ">">>
N_modus_button_tsx == <<"m", "o", "d", "u", "s", "-", "b", "u", "t", "t", "o", "n", ".", "t", "s", "x">>
S_NotFound == <<"N", "o", "t", "F", "o", "u", "n", "d">>
P_v1_alert == <<"V", "1", " ", "A", "L", "E", "R", "T", " ", "D", "O", "C">>
P_v2_alert == <<"V", "2", " ", "A", "L", "E", "R", "T", " ", "D", "O", "C">>
P_v2_alert_more == <<"V", "2", " ", "A", "L", "E", "R", "T", " ", "D", "O", "C", " ", "2">>
P_other == <<"O", "T", "H", "E", "R", " ", "D", "O", "C">>

QueryFragments == {Q_alert_hi, Q_alert_bye, Q_button}

\* fs[1] \o fs[2] \o ...
RECURSIVE Concat(_)
Concat(fs) == IF fs = <<>> THEN <<>> ELSE fs[1] \o Concat(Tail(fs))

\* the query texts: up to n different fragments, one after the other
QueriesOf(n) ==
    {Concat(q) : q \in UNION {Orderings(F) : F \in {G \in SUBSET QueryFragments :
                                                     Cardinality(G) <= n}}}

\* the query of the spec's tag-extraction example
ExampleQuery == Q_alert_hi \o Q_alert_bye

Chunks ==
    {Chunk(S_v1_component, N_modus_alert_tsx, P_v1_alert),
     Chunk(S_v2_component, N_modus_wc_alert_tsx, P_v2_alert),
     Chunk(S_v2_component, N_modus_wc_alert_tsx, P_v2_alert_more),
     Chunk(S_v2_component, S_NotFound, P_other),
     Chunk(S_v2_component, S_Not_Found, P_other)}

\* the migration state the API hands over: none, one without a mapping, one
\* whose mapping is null, or one with a mapping (to a file, to a sentinel
\* spelling, to the empty text or to null)
MappingStates ==
    {JNull,
     EmptyDict,
     JObj(<<S_Mapping_v1_v2>>, <<JNull>>),
     JObj(<<S_Mapping_v1_v2>>,
          <<JObj(<<N_modus_alert_tsx, N_modus_button_tsx>>,
                 <<JStr(N_modus_wc_alert_tsx), JStr(S_Not_Found)>>)>>),
     JObj(<<S_Mapping_v1_v2>>,
          <<JObj(<<N_modus_alert_tsx, N_modus_button_tsx>>,
                 <<JStr(S_NotFound), JStr(N_modus_wc_alert_tsx)>>)>>),
     JObj(<<S_Mapping_v1_v2>>,
          <<JObj(<<N_modus_alert_tsx, N_modus_button_tsx>>,
                 <<EmptyStr, JNull>>)>>)}

\* the rankings an index can show for one query text
Rankings(ix) ==
    {[lead |-> l, perm |-> p, trail |-> ix.filler - l]
        : l \in {0, ix.filler}, p \in Orderings(ix.chunks)}

\* RetrieveRequest.k when the request names none
DefaultK == 5

\* the (k_search, k_pick) pairs of the requests
RequestKs == ({1, MaxK} \X {0, 1, MaxK}) \cup {<<DefaultK, DefaultK>>}

InitRetrieval ==
    /\ pc = "idle"
    /\ state = MigrationState
    /\ db = <<>>
    /\ executed = <<>>
    /\ last = NoCall
    /\ calls = 0
    /\ writers = [f \in Fields |-> {}]
    /\ \E cs \in SUBSET Chunks, fill \in {0, FullScanK} :
          /\ Cardinality(cs) + (IF fill > 0 THEN 1 ELSE 0) <= MaxIndex
          /\ index = [chunks |-> cs, filler |-> fill]
    /\ rq = NoRequest
    /\ result = NoResult
    /\ ranked = {}
    /\ flat = NoFlat
    /\ repos = NoRepos
    /\ update = NoUpdate

\* whether the call searches the index for the empty text at all: some tag
\* runs the fallback scan (that depends on the first search only)
ScanRuns(code, k_search, k_pick, st, by_code) ==
    LET res == retrieve_context_by_section(code, k_search, k_pick, st, by_code, by_code)
    IN \E i \in 1..Len(res.hits) : res.hits[i].scanned

\* one call of retrieve_context_by_section; the ranking for the empty text
\* is the ranking for the code when the code is the empty text, and it is
\* drawn only when the call searches for the empty text (rq keeps the
\* ranking for the code in its place otherwise)
RetrieveBySection ==
    /\ pc = "idle"
    /\ ~rq.served
    /\ LET rankings == Rankings(index)
       IN
       \E code \in QueriesOf(MaxFrags), ks \in RequestKs,
          st \in MappingStates, by_code \in rankings :
       \E by_empty \in IF ScanRuns(code, ks[1], ks[2], st, by_code)
                       THEN rankings ELSE {by_code} :
        LET k_search == ks[1]
            k_pick == ks[2]
        IN
          /\ code = <<>> => by_empty = by_code
          /\ rq' = [served |-> TRUE, code |-> code, k_search |-> k_search,
                    k_pick |-> k_pick, state |-> st,
                    by_code |-> by_code, by_empty |-> by_empty]
          /\ result' = retrieve_context_by_section(code, k_search, k_pick, st,
                                                   by_code, by_empty)
    /\ UNCHANGED <<pc, state, db, executed, last, calls, writers, index, ranked, flat, repos, update>>

NextRetrieval == RetrieveBySection

SpecRetrieval == InitRetrieval /\ [][NextRetrieval]_vars

(***************************************************************************)
(* retrieve_context: flat retrieval.  Every call loads the index from disk *)
(* and asks the embedding service for the vector of the query text; the    *)
(* ranking stands for that vector.  The service is taken to be a function  *)
(* of the text: what it answered for a text before, it answers again.      *)
(***************************************************************************)
\* an embedding service that answers every request afresh
embed_query_fresh(ix, memo, text) == Rankings(ix)

\* embeddings.embed_query(text) as the index sees it: the rankings a search
\* for text can meet, given the answers memo the service gave before
embed_query(ix, memo, text) ==
    IF \E p \in memo : p[1] = text
    THEN {p[2] : p \in {q \in memo : q[1] = text}}
    ELSE Rankings(ix)

\* [doc.page_content for doc in results]
page_contents(results) == [i \in 1..Len(results) |-> results[i].page_content]

\* retrieve_context that asks the index for one chunk more
retrieve_context_one_more(code, k, r) ==
    Join(page_contents(similarity_search(r, k + 1)), <<"\n", "\n">>)

\* retrieve_context(code, k) against the ranking r the index shows for code
retrieve_context(code, k, r) ==
    Join(page_contents(similarity_search(r, k)), <<"\n", "\n">>)

\* the query texts sent to /retrieve
FlatQueries == {Q_alert_hi, Q_button}

\* one call of retrieve_context; the history keeps the call and, of the
\* calls before it, either the one it kept already or the previous one
RetrieveFlat ==
    /\ pc = "idle"
    /\ \E code \in FlatQueries, k \in {1, MaxK} :
         \E r \in embed_query(index, ranked, code) :
            /\ ranked' = ranked \cup {<<code, r>>}
            /\ \E seen \in {flat.last} \cup {c \in {flat.seen} : c.served} :
                  flat' = [last |-> [served |-> TRUE, code |-> code, k |-> k,
                                     ranking |-> r,
                                     text |-> retrieve_context(code, k, r)],
                           seen |-> seen]
    /\ UNCHANGED <<pc, state, db, executed, last, calls, writers, index, rq, result, repos, update>>

S_verification_rules == <<"v", "e", "r", "i", "f", "i", "c", "a", "t", "i", "o", "n", "_", "r", "u", "l", "e", "s">>
S_migration_plan == <<"m", "i", "g", "r", "a", "t", "i", "o", "n", "_", "p", "l", "a", "n">>

\* migrate_with_llm(code, context, state): ok is FALSE, and the model is not
\* called, when a subscript of state raises (state is no dict, or lacks
\* "Mapping_v1_v2", "verification_rules" or "migration_plan"); otherwise
\* the stripped content of the model's response resp is returned
migrate_with_llm(code, context, st, resp) ==
    LET given == IF Truthy(st) THEN st ELSE EmptyDict
        raises == \/ ~IsDict(given)
                  \/ \E k \in {S_Mapping_v1_v2, S_verification_rules, S_migration_plan} :
                        ~HasKey(given, k)
    IN IF raises THEN [ok |-> FALSE, llm |-> FALSE, migrated |-> <<>>]
       ELSE [ok |-> TRUE, llm |-> TRUE, migrated |-> Strip(resp)]

\* the k of the context search of /migrate
MigrateK == 20

\* POST /migrate: flat retrieval of the context for the code, then
\* migrate_with_llm with that context and no state
Migrate ==
    /\ pc = "idle"
    /\ \E code \in FlatQueries, resp \in {R_code, R_prose} :
         \E r \in embed_query(index, ranked, code) :
            LET context == retrieve_context(code, MigrateK, r)
                out == migrate_with_llm(code, context, JNull, resp)
            IN /\ ranked' = ranked \cup {<<code, r>>}
               /\ last' = [node |-> "migrate", ok |-> out.ok, llm |-> out.llm,
                           response |-> out.migrated]
    /\ UNCHANGED <<pc, state, db, executed, calls, writers, index, rq, result, flat, repos, update>>

InitFlat == InitRetrieval

NextFlat ==
    \/ RetrieveFlat
    \/ Migrate

SpecFlat == InitFlat /\ [][NextFlat]_vars

(***************************************************************************)
(* Context update (src/ingest/update_context.py, ingest_repos.py,          *)
(* analyze_repos.py, ingest_context.py).                                   *)
(***************************************************************************)
\* characters in code-point order, as far as keys and names use them
CharOrder ==
    <<"-", ".", "/">> \o <<"0", "1", "2", "3", "4", "5", "6", "7", "8", "9">>
        \o UpperLetters \o <<"_">> \o LowerOfUpper

CharRank(c) == CHOOSE i \in 1..Len(CharOrder) : CharOrder[i] = c

\* a < b for two texts, as Python compares str
RECURSIVE StrLess(_, _)
StrLess(a, b) ==
    IF b = <<>> THEN FALSE
    ELSE IF a = <<>> THEN TRUE
    ELSE IF a[1] = b[1] THEN StrLess(Tail(a), Tail(b))
    ELSE CharRank(a[1]) < CharRank(b[1])

\* sorted(keys)
RECURSIVE SortKeys(_)
SortKeys(ks) ==
    IF ks = <<>> THEN <<>>
    ELSE LET least == CHOOSE i \in 1..Len(ks) :
                          \A j \in 1..Len(ks) : ~StrLess(ks[j], ks[i])
         IN <<ks[least]>>
                \o SortKeys([j \in 1..(Len(ks) - 1) |->
                                IF j < least THEN ks[j] ELSE ks[j + 1]])

\* json.dumps(v) and json.dumps(v, sort_keys=True): the text, with ", " and
\* ": " as separators (the texts of this model need no escapes)
RECURSIVE json_dumps(_, _)
json_dumps(v, sort_keys) ==
    CASE v.kind = "object" ->
            LET ks == IF sort_keys THEN SortKeys(v.keys) ELSE v.keys
            IN <<"{">>
                 \o Join([i \in 1..Len(ks) |->
                            <<"\"">> \o ks[i] \o <<"\"", ":", " ">>
                                \o json_dumps(DictGet(v, ks[i], JNull), sort_keys)],
                         <<",", " ">>)
                 \o <<"}">>
      [] v.kind = "array" ->
            <<"[">>
              \o Join([i \in 1..Len(v.vals) |-> json_dumps(v.vals[i], sort_keys)],
                      <<",", " ">>)
              \o <<"]">>
      [] v.kind = "string" -> <<"\"">> \o v.lit \o <<"\"">>
      [] v.kind = "null" -> LitNull
      [] OTHER -> v.lit

K_events == <<"e", "v", "e", "n", "t", "s">>
K_slots == <<"s", "l", "o", "t", "s">>
K_name == <<"n", "a", "m", "e">>
K_path == <<"p", "a", "t", "h">>
S_v1 == <<"v", "1">>
S_modus_web_components == <<"m", "o", "d", "u", "s", "-", "w", "e", "b", "-", "c", "o", "m", "p", "o", "n", "e", "n", "t", "s">>

\* the unit types of the table, by what load_current_db_state tests on them:
\* type.startswith("v1_") / ("v2_") and "_components" in type
VersionOf(type_) ==
    CASE type_ \in {"v1_components", "v1_docs"} -> "v1"
      [] type_ \in {"v2_components", "v2_docs"} -> "v2"
      [] OTHER -> "none"

IsComponentsType(type_) == type_ \in {"v1_components", "v2_components"}

\* f"{version_prefix}_components" and f"{version_prefix}_docs"
ComponentsType(version) == IF version = "v1" THEN "v1_components" ELSE "v2_components"
DocsType(version) == IF version = "v1" THEN "v1_docs" ELSE "v2_docs"

\* a working tree, as far as the analysis reads it: the modus-*.tsx files
\* with what parse_component_file makes of each, and the documentation
\* files by component name
Tree(files, docs) == [cloned |-> TRUE, files |-> files, docs |-> docs]

\* parse_component_file(path): props, events and slots
Parsed(props) ==
    JObj(<<K_props, K_events, K_slots>>, <<JArr(props), EmptyList, EmptyList>>)

\* load_component_docs(repo_path, version)
load_component_docs(tree, version) == tree.docs

\* extract_component_details(repo_path, version): per file name, the parsed
\* file with the documentation found under the lower-cased stem ("" if none)
extract_component_details(tree, version) ==
    JObj(tree.files.keys,
         [i \in 1..Len(tree.files.keys) |->
             DictSet(tree.files.vals[i], K_documentation,
                     DictGet(load_component_docs(tree, version),
                             Lower(Replace(tree.files.keys[i], S_tsx, <<>>)),
                             EmptyStr))])

\* d.update(other): keys of other overwrite, new keys go last
RECURSIVE DictUpdate(_, _, _)
DictUpdate(d, other, i) ==
    IF i > Len(other.keys) THEN d
    ELSE DictUpdate(DictSet(d, other.keys[i], other.vals[i]), other, i + 1)

\* the docs of one version under the keys f"{version}/{name}", written
\* <<version, name>>
DocEntries(version, tree) ==
    IF ~tree.cloned THEN <<>>
    ELSE LET docs == load_component_docs(tree, version)
         IN [i \in 1..Len(docs.keys) |->
                [key |-> <<version, docs.keys[i]>>, content |-> docs.vals[i].lit]]

\* get_new_analysis_state(): the analysis of the repositories found under
\* repos/; components is one dict for both versions
get_new_analysis_state(rs) ==
    LET v1_details == IF rs.v1.cloned THEN extract_component_details(rs.v1, "v1")
                      ELSE EmptyDict
        v2_details == IF rs.v2.cloned THEN extract_component_details(rs.v2, "v2")
                      ELSE EmptyDict
    IN [components |-> DictUpdate(DictUpdate(EmptyDict, v1_details, 1), v2_details, 1),
        docs |-> DocEntries("v1", rs.v1) \o DocEntries("v2", rs.v2)]

\* the content load_current_db_state keeps for a component unit: the parsed
\* JSON, or the text itself when it does not parse
LoadedContent(row) ==
    LET r == json_loads(row.content)
    IN IF r.ok THEN r.value ELSE JStr(row.content)

\* load_current_db_state(session)["components"].get(name): the id (the
\* position in the table) of the unit kept under the file name, 0 for none;
\* a later unit of the same name replaces an earlier one
ComponentEntry(rows, name) ==
    LET at == {i \in 1..Len(rows) :
                  /\ VersionOf(rows[i].type) # "none"
                  /\ IsComponentsType(rows[i].type)
                  /\ rows[i].name = name}
    IN IF at = {} THEN 0 ELSE CHOOSE i \in at : \A j \in at : j <= i

\* load_current_db_state(session)["docs"].get(f"{version}/{name}")
DocEntry(rows, key) ==
    LET at == {i \in 1..Len(rows) :
                  /\ VersionOf(rows[i].type) = key[1]
                  /\ ~IsComponentsType(rows[i].type)
                  /\ rows[i].name = key[2]}
    IN IF at = {} THEN 0 ELSE CHOOSE i \in at : \A j \in at : j <= i

\* str(value), used on the "path" entry of a component
PyStr(v) == IF v.kind = "string" THEN v.lit ELSE json_dumps(v, FALSE)

\* the version main_update_context infers for a component of the analysis:
\* "v1" if "modus-web-components" in str(d.get("path", "v1")) else "v2"
inferred_version(new_content_dict) ==
    IF Contains(PyStr(DictGet(new_content_dict, K_path, JStr(S_v1))),
                S_modus_web_components)
    THEN "v1" ELSE "v2"

\* the ids main_update_context deletes: the tracked units whose file name or
\* doc key is not in the new analysis
ids_to_delete(rows, new_state) ==
    {i \in 1..Len(rows) :
        \/ /\ IsComponentsType(rows[i].type)
           /\ ComponentEntry(rows, rows[i].name) = i
           /\ ~HasKey(new_state.components, rows[i].name)
        \/ /\ VersionOf(rows[i].type) # "none"
           /\ ~IsComponentsType(rows[i].type)
           /\ DocEntry(rows, <<VersionOf(rows[i].type), rows[i].name>>) = i
           /\ \A d \in Range(new_state.docs) :
                 d.key # <<VersionOf(rows[i].type), rows[i].name>>}

\* the content main_update_context gives the unit with id i: the new
\* analysis when the unit is tracked and differs from it, else what it had
updated_content(rows, new_state, i) ==
    LET row == rows[i]
        new_dict == DictGet(new_state.components, row.name, JNull)
        key == <<VersionOf(row.type), row.name>>
        new_docs == {d \in Range(new_state.docs) : d.key = key}
    IN IF /\ IsComponentsType(row.type)
          /\ ComponentEntry(rows, row.name) = i
          /\ HasKey(new_state.components, row.name)
          /\ json_dumps(LoadedContent(row), TRUE) # json_dumps(new_dict, TRUE)
       THEN json_dumps(new_dict, FALSE)
       ELSE IF /\ VersionOf(row.type) # "none"
               /\ ~IsComponentsType(row.type)
               /\ DocEntry(rows, key) = i
               /\ new_docs # {}
            THEN (CHOOSE d \in new_docs : TRUE).content
            ELSE row.content

\* the units main_update_context adds: the components of the analysis that
\* have no tracked unit, then the docs that have none
units_to_add(rows, new_state) ==
    LET comps == new_state.components
        new_comps == SelectSeq([i \in 1..Len(comps.keys) |->
                                   [name |-> comps.keys[i], dict |-> comps.vals[i]]],
                               LAMBDA c : ComponentEntry(rows, c.name) = 0)
        new_docs == SelectSeq(new_state.docs, LAMBDA d : DocEntry(rows, d.key) = 0)
    IN [i \in 1..Len(new_comps) |->
           Row(ComponentsType(inferred_version(new_comps[i].dict)),
               new_comps[i].name,
               json_dumps(new_comps[i].dict, TRUE))]
       \o [i \in 1..Len(new_docs) |->
              Row(DocsType(new_docs[i].key[1]), new_docs[i].key[2],
                  new_docs[i].content)]

\* steps 3 to 5 of main_update_context on the table rows: the table after
\* session.commit(), and whether compute_embedding was called
compare_and_update(rows, new_state) ==
    LET gone == ids_to_delete(rows, new_state)
        kept == SelectSeq([i \in 1..Len(rows) |->
                              [id |-> i,
                               row |-> [rows[i] EXCEPT
                                          !.content = updated_content(rows, new_state, i)]]],
                          LAMBDA e : e.id \notin gone)
        added == units_to_add(rows, new_state)
    IN [rows |-> [i \in 1..Len(kept) |-> kept[i].row] \o added,
        embedded |-> \/ added # <<>>
                     \/ \E i \in 1..Len(rows) :
                           updated_content(rows, new_state, i) # rows[i].content]

\* a clone whose failure is reported and swallowed like that of a pull
clone_or_pull_repo_lenient(tree, outcome, fetched) ==
    [ok |-> TRUE,
     tree |-> IF outcome \in {"pulled", "cloned"} THEN fetched ELSE tree]

\* clone_or_pull_repo(repo_url, dest_dir) on the local tree, for one outcome
\* of the git command and the tree fetched when it succeeds: a failed pull
\* (GitCommandError or any other exception) is reported and the local copy
\* kept; a failed clone raises (GitCommandError is re-raised, any other
\* exception is not caught) and leaves no copy
clone_or_pull_repo(tree, outcome, fetched) ==
    [ok |-> outcome \notin {"clone_failed", "clone_error"},
     tree |-> IF outcome \in {"pulled", "cloned"} THEN fetched ELSE tree]

\* the outcomes git can have on a local tree
OutcomesFor(tree) ==
    IF tree.cloned THEN {"pulled", "pull_failed", "pull_error"}
    ELSE {"cloned", "clone_failed", "clone_error"}

\* ingest_repos(v1_url, v2_url, dest_dir): v1 first, and v2 only when v1 did
\* not raise
ingest_repos(rs, o1, f1, o2, f2) ==
    LET r1 == clone_or_pull_repo(rs.v1, o1, f1)
        r2 == clone_or_pull_repo(rs.v2, o2, f2)
    IN IF ~r1.ok
       THEN [ok |-> FALSE, repos |-> [rs EXCEPT !.v1 = r1.tree], git |-> <<o1, "none">>]
       ELSE [ok |-> r2.ok, repos |-> [v1 |-> r1.tree, v2 |-> r2.tree],
             git |-> <<o1, o2>>]

N_modus_alert_doc == <<"A", "l", "e", "r", "t">>
N_stories == <<"S", "t", "o", "r", "i", "e", "s">>
N_size == <<"s", "i", "z", "e">>

\* the working trees a repository can show
V1Trees ==
    {Tree(JObj(<<N_modus_alert_tsx>>, <<Parsed(<<>>)>>),
          JObj(<<N_modus_alert>>, <<JStr(N_modus_alert_doc)>>)),
     Tree(JObj(<<N_modus_alert_tsx>>, <<Parsed(<<JObj(<<K_name>>, <<JStr(N_size)>>)>>)>>),
          EmptyDict),
     Tree(EmptyDict, EmptyDict)}

V2Trees ==
    {Tree(JObj(<<N_modus_wc_alert_tsx>>, <<Parsed(<<>>)>>),
          JObj(<<N_modus_wc_alert>>, <<JStr(N_stories)>>)),
     Tree(JObj(<<N_modus_alert_tsx>>, <<Parsed(<<>>)>>), EmptyDict)}

\* main_ingest_context on the context directory main_analyze wrote for the
\* trees: one unit per component of components.json, named by the file,
\* with the content {"name", "props", "events", "slots", "documentation"},
\* and one unit per documentation file
ingested_units(tree, version) ==
    IF ~tree.cloned THEN <<>>
    ELSE LET details == extract_component_details(tree, version)
             docs == load_component_docs(tree, version)
         IN [i \in 1..Len(details.keys) |->
                Row(ComponentsType(version), details.keys[i],
                    json_dumps(
                        JObj(<<K_name, K_props, K_events, K_slots, K_documentation>>,
                             <<JStr(details.keys[i]),
                               DictGet(details.vals[i], K_props, EmptyList),
                               DictGet(details.vals[i], K_events, EmptyList),
                               DictGet(details.vals[i], K_slots, EmptyList),
                               DictGet(details.vals[i], K_documentation, EmptyStr)>>),
                        FALSE))]
             \o [i \in 1..Len(docs.keys) |->
                    Row(DocsType(version), docs.keys[i], docs.vals[i].lit)]

main_ingest_context(v1_tree, v2_tree) ==
    ingested_units(v1_tree, "v1") \o ingested_units(v2_tree, "v2")
        \o <<Row("migration_plan", N_plan, T_plan)>>

MaxRuns == 1      \* runs of main_update_context

\* the clones are there or not; the store is empty (db/setup.py) or was
\* filled by main_ingest_context from them
InitUpdate ==
    /\ pc = "idle"
    /\ state = MigrationState
    /\ \E t1 \in V1Trees \cup {NoTree}, t2 \in V2Trees \cup {NoTree} :
          /\ repos = [v1 |-> t1, v2 |-> t2]
          /\ db \in {<<>>, main_ingest_context(t1, t2)}
    /\ executed = <<>>
    /\ last = NoCall
    /\ calls = 0
    /\ writers = [f \in Fields |-> {}]
    /\ index = NoIndex
    /\ rq = NoRequest
    /\ result = NoResult
    /\ ranked = {}
    /\ flat = NoFlat
    /\ update = NoUpdate

\* one run of main_update_context: the repositories are cloned or pulled,
\* and unless that raised the analysis is compared with the table; the
\* session ends committed, rolled back (commit failed) or left uncommitted
\* (compute_embedding raised)
MainUpdateContext ==
    /\ pc = "idle"
    /\ update.runs < MaxRuns
    /\ \E o1 \in OutcomesFor(repos.v1), o2 \in OutcomesFor(repos.v2),
          f1 \in V1Trees, f2 \in V2Trees,
          ending \in {"committed", "rolled_back", "raised"} :
         LET got == ingest_repos(repos, o1, f1, o2, f2)
             new_state == get_new_analysis_state(got.repos)
             after == compare_and_update(db, new_state)
         IN /\ o1 \notin {"pulled", "cloned"} => f1 = CHOOSE t \in V1Trees : TRUE
            /\ (o2 \notin {"pulled", "cloned"} \/ got.git[2] = "none")
                  => f2 = CHOOSE t \in V2Trees : TRUE
            /\ got.git[2] = "none" => o2 = CHOOSE o \in OutcomesFor(repos.v2) : TRUE
            /\ repos' = got.repos
            /\ IF ~got.ok
               THEN /\ ending = "committed"
                    /\ db' = db
                    /\ update' = [runs |-> update.runs + 1, status |-> "aborted",
                                  opened |-> FALSE, git |-> got.git]
               ELSE /\ ending = "raised" => after.embedded
                    /\ db' = IF ending = "committed" THEN after.rows ELSE db
                    /\ update' = [runs |-> update.runs + 1, status |-> ending,
                                  opened |-> TRUE, git |-> got.git]
    /\ UNCHANGED <<pc, state, executed, last, calls, writers, index, rq, result,
                   ranked, flat>>

NextUpdate == MainUpdateContext

SpecUpdate == InitUpdate /\ [][NextUpdate]_vars

(***************************************************************************)
(* Claims about retrieve_context_by_section.                               *)
(***************************************************************************)
\* mapping.get(v1_key) for the tag of the served request
V2FileOf(tag) == DictGet(mapping_of(rq.state), tag \o S_tsx, JNull)

\* the chunks of the index whose source is "v2_component:" + name
IndexedUnder(name) ==
    {c \in index.chunks : c.source = S_v2_component \o <<":">> \o name}

\* the broad candidate set of the served request
Candidates == similarity_search(rq.by_code, rq.k_search)

\* C8: for every index and query, when a tag of the query is mapped to a v2
\* file (not a sentinel), at least one chunk is asked for (k_pick >= 1) and
\* the index holds a chunk whose source is "v2_component:" + that file, the
\* page content of such a chunk is in the V2 COMPONENT block of the answer,
\* whatever the size of the index and wherever the chunk ranks.
C8_FallbackFindsMappedChunk ==
    result.served =>
        \A i \in 1..Len(result.tags) :
            LET v2_file == V2FileOf(result.tags[i])
            IN (/\ v2_file.kind = "string"
                /\ v2_file.lit \notin {<<>>, S_Not_Found, S_NotFound}
                /\ rq.k_pick >= 1
                /\ IndexedUnder(v2_file.lit) # {})
               => \E c \in IndexedUnder(v2_file.lit) :
                      /\ c.page_content \in Range(result.v2_component)
                      /\ Contains(result.text, c.page_content)

FirstIndex(q, x) == CHOOSE i \in 1..Len(q) : q[i] = x /\ \A j \in 1..(i - 1) : q[j] # x

\* C10: the tags extracted from a query are the tags the pattern matches in
\* it, each exactly once, in the order of their first occurrence; the query
\* with two <modus-alert ...> elements yields exactly <<"modus-alert">>.
C10_TagsDistinctInFirstOccurrenceOrder ==
    result.served =>
        LET raw == findall_tags(rq.code)
            tags == result.tags
        IN /\ Range(tags) = Range(raw)
           /\ \A i, j \in 1..Len(tags) : i # j => tags[i] # tags[j]
           /\ \A i, j \in 1..Len(tags) :
                  i < j => FirstIndex(raw, tags[i]) < FirstIndex(raw, tags[j])
           /\ \A i \in 1..Len(tags) :
                  StartsWith(tags[i], Tail(S_lt_modus)) /\ Contains(rq.code, <<"<">> \o tags[i])
           /\ rq.code = ExampleQuery => tags = <<N_modus_alert>>

\* C10 witness: the query with two <modus-alert ...> elements was served;
\* the pattern matched twice and one tag came out.
C10_Witness ==
    /\ result.served
    /\ rq.code = ExampleQuery
    /\ Len(findall_tags(rq.code)) = 2
    /\ result.tags = <<N_modus_alert>>

(***************************************************************************)
(* Claims about retrieve_context.                                          *)
(***************************************************************************)
\* the whole index in the order the ranking r gives it
RankedOrder(r) == similarity_search(r, r.lead + Len(r.perm) + r.trail)

\* C11: for every query and k, retrieve_context returns the texts of the
\* first min(k, size of the index) chunks of the ranking, so of at most k
\* chunks, in ranked order, joined by a blank line.
C11_FlatTopKInRankedOrder ==
    flat.last.served =>
        LET c == flat.last
            order == RankedOrder(c.ranking)
            n == Min(c.k, Len(order))
        IN /\ n <= c.k
           /\ c.text = Join([i \in 1..n |-> order[i].page_content], <<"\n", "\n">>)

\* C11 witness: a call with k >= 2 against an index of two chunks and no
\* others returned the two texts in ranked order with a blank line between.
C11_Witness ==
    /\ flat.last.served
    /\ flat.last.k >= 2
    /\ index.filler = 0
    /\ Cardinality(index.chunks) = 2
    /\ LET p == flat.last.ranking.perm
       IN /\ p[1].page_content # p[2].page_content
          /\ flat.last.text = p[1].page_content \o <<"\n", "\n">> \o p[2].page_content

L_v1_header == <<"#", "#", "#", " ", "V", "1", " ", "C", "O", "M", "P", "O", "N", "E", "N", "T", "\n">>
L_v2_header == <<"#", "#", "#", " ", "V", "2", " ", "C", "O", "M", "P", "O", "N", "E", "N", "T", "\n">>
L_placeholder == <<"<", "n", "o", " ", "c", "o", "n", "t", "e", "n", "t", ">">>
L_blank_line == <<"\n", "\n">>

\* what a block shows for a bucket: its texts with blank lines between, or
\* the placeholder alone for an empty bucket
BodyOf(texts) == IF texts = <<>> THEN L_placeholder ELSE Join(texts, L_blank_line)

\* C13: an answer of retrieve_context_by_section is exactly two blocks with
\* a blank line between them: "### V1 COMPONENT" first, "### V2 COMPONENT"
\* second, each header line followed by the texts of its bucket joined by
\* blank lines, or by the placeholder "<no content>" for an empty bucket.
C13_TwoBlocksWithPlaceholder ==
    (result.served /\ result.ok) =>
        result.text = L_v1_header \o BodyOf(result.v1_component)
                        \o L_blank_line
                        \o L_v2_header \o BodyOf(result.v2_component)

\* C13 witness: an answer whose v1 bucket is empty and whose v2 bucket holds
\* two texts: the placeholder in the first block, both texts in the second.
C13_Witness ==
    /\ result.served
    /\ result.ok
    /\ result.v1_component = <<>>
    /\ Len(result.v2_component) = 2
    /\ result.text = L_v1_header \o L_placeholder \o L_blank_line \o L_v2_header
                        \o result.v2_component[1] \o L_blank_line
                        \o result.v2_component[2]

\* chunk A and chunk B of the worked example
ChunkA == Chunk(S_v1_component, N_modus_alert_tsx, P_v1_alert)
ChunkB == Chunk(S_v2_component, N_modus_wc_alert_tsx, P_v2_alert)

\* the request of the worked example: the index holds A and B and fits in
\* the candidate set, modus-alert.tsx is mapped to modus-wc-alert.tsx, the
\* query names the tag modus-alert, k_search = k_pick = 5
ExampleRequest ==
    /\ result.served
    /\ {ChunkA, ChunkB} \subseteq index.chunks
    /\ index.filler + Cardinality(index.chunks) <= DefaultK
    /\ IsDict(rq.state)
    /\ DictGet(DictGet(rq.state, S_Mapping_v1_v2, EmptyDict), N_modus_alert_tsx, JNull)
          = JStr(N_modus_wc_alert_tsx)
    /\ N_modus_alert \in Range(result.tags)
    /\ rq.k_search = DefaultK
    /\ rq.k_pick = DefaultK

\* C14: in the worked example the answer carries A's text in the bucket of
\* the V1 COMPONENT block and B's text in the bucket of the V2 COMPONENT
\* block; when A and B are the whole index the answer is exactly
\* "### V1 COMPONENT\nV1 ALERT DOC\n\n### V2 COMPONENT\nV2 ALERT DOC".
C14_ExampleAnswer ==
    ExampleRequest =>
        /\ result.ok
        /\ P_v1_alert \in Range(result.v1_component)
        /\ P_v2_alert \in Range(result.v2_component)
        /\ index.chunks = {ChunkA, ChunkB} =>
              result.text = L_v1_header \o P_v1_alert \o L_blank_line
                              \o L_v2_header \o P_v2_alert

\* C14 witness: the worked example was served for the query
\* <modus-alert message="hi"></modus-alert> against the index {A, B}.
C14_Witness ==
    /\ ExampleRequest
    /\ rq.code = Q_alert_hi
    /\ index.chunks = {ChunkA, ChunkB}
    /\ result.text = L_v1_header \o P_v1_alert \o L_blank_line
                       \o L_v2_header \o P_v2_alert

\* the answer whose two blocks hold the placeholder only
L_empty_answer == L_v1_header \o L_placeholder \o L_blank_line \o L_v2_header \o L_placeholder

\* C15: retrieve_context_by_section returns a string and does not fail for
\* any query and any mapping state; a query without component tags gets
\* the placeholder in both blocks, and a request without a state or with a
\* state without a mapping gets the placeholder in the V2 COMPONENT block.
C15_NeverFails ==
    result.served =>
        /\ result.ok
        /\ result.tags = <<>> => result.text = L_empty_answer
        /\ (~IsDict(rq.state) \/ ~HasKey(rq.state, S_Mapping_v1_v2)) =>
              result.v2_component = <<>>

\* C20: for each tag the v1 bucket receives exactly the first k_pick
\* candidates whose source is "v1_component:" + tag + ".tsx", in ranked
\* order: every chunk it receives is among the top-k_search candidates and
\* has that source, and a chunk outside the candidates is never received.
C20_V1FromCandidatesOnly ==
    (result.served /\ result.ok) =>
        \A i \in 1..Len(result.tags) :
            LET key == S_v1_component \o <<":">> \o result.tags[i] \o S_tsx
                got == result.hits[i].v1
                matching == SelectSeq(Candidates, LAMBDA d : d.source = key)
            IN /\ Len(got) <= rq.k_pick
               /\ \A j \in 1..Len(got) :
                     got[j] \in Range(Candidates) /\ got[j].source = key
               /\ got = SubSeq(matching, 1, Len(got))
               /\ Len(got) = Min(rq.k_pick, Len(matching))

\* C20 witness: the index holds a chunk with source
\* "v1_component:modus-alert.tsx" that is outside the candidates of a
\* request naming the tag modus-alert with k_pick >= 1 (the chunk is within
\* reach of a scan of the index); the v1 bucket stays empty.
C20_Witness ==
    /\ result.served
    /\ result.ok
    /\ rq.k_pick >= 1
    /\ index.filler = 0
    /\ ChunkA \in index.chunks
    /\ ChunkA \notin Range(Candidates)
    /\ N_modus_alert \in Range(result.tags)
    /\ result.v1_component = <<>>

(***************************************************************************)
(* Claims about migrate_code, verify_migration and the decoding of model   *)
(* responses.                                                              *)
(***************************************************************************)
\* current_file is unset, or modified_code holds no non-empty code for it
CodeAbsent(s) ==
    \/ s.current_file.kind # "string"
    \/ s.current_file.lit = <<>>
    \/ ~HasKey(s.modified_code, s.current_file.lit)
    \/ DictGet(s.modified_code, s.current_file.lit, JNull) \in {JNull, EmptyStr}

\* C16: a call of migrate_code on a state whose current_file is unset, or
\* whose modified_code has no non-empty code for current_file, returns the
\* state equal to the input in every field and does not invoke the model.
C16_MigrateNoOpWithoutCode ==
    [][(calls' = calls + 1 /\ last'.node = "migrate_code" /\ CodeAbsent(state))
          => (state' = state /\ ~last'.llm /\ last'.ok)]_vars

\* C16 witness: migrate_code was called on the state of an empty file
\* (current_file set, its code the empty string) and did not reach the model.
C16_Witness ==
    /\ last.node = "migrate_code"
    /\ ~last.llm
    /\ state.current_file = JStr(S_file_path)
    /\ DictGet(state.modified_code, S_file_path, JNull) = EmptyStr

\* the first fenced code block of a response: from the first fence marker,
\* past the rest of its line, up to the next fence marker; start = 0 when
\* the response has none
FirstFencedBlock(resp) ==
    LET open == Find(resp, Fence, 1)
        nl == IF open = 0 THEN 0 ELSE Find(resp, <<"\n">>, open + 3)
        close == IF nl = 0 THEN 0 ELSE Find(resp, Fence, nl + 1)
    IN IF close = 0 THEN [start |-> 0, content |-> <<>>]
       ELSE [start |-> nl + 1, content |-> SubSeq(resp, nl + 1, close - 1)]

\* what the claim says migrate_code writes for a response
CodeOf(resp) ==
    IF FirstFencedBlock(resp).start # 0
    THEN Strip(FirstFencedBlock(resp).content)
    ELSE Strip(resp)

\* C17: a call of migrate_code with current_file and its code present
\* writes to modified_code[current_file] the trimmed content of the first
\* fenced code block of the response when it has one and the whole trimmed
\* response otherwise, and changes no other key and no other field.
C17_MigrateWritesFirstFencedBlock ==
    [][(calls' = calls + 1 /\ last'.node = "migrate_code" /\ ~CodeAbsent(state))
          => /\ last'.llm
             /\ state' = [state EXCEPT !.modified_code =
                             DictSet(@, state.current_file.lit,
                                     JStr(CodeOf(last'.response)))]]_vars

\* C18: a call of verify_migration with migrated code present whose
\* response parses replaces verification_rules by the parsed value and
\* leaves every other field; a call without current_file or its code
\* returns the state unchanged and does not invoke the model.
C18_VerifyReplacesRules ==
    [][(calls' = calls + 1 /\ last'.node = "verify_migration")
          => IF CodeAbsent(state)
             THEN state' = state /\ ~last'.llm /\ last'.ok
             ELSE /\ last'.llm
                  /\ decode(last'.response).ok =>
                        state' = [state EXCEPT !.verification_rules =
                                     decode(last'.response).value]]_vars

\* C18 witness: verify_migration was called with code present after
\* load_context had put rules read from the table into the state; the
\* response parsed to a list and the rules are now exactly that list.
C18_Witness ==
    /\ last.node = "verify_migration"
    /\ last.llm
    /\ last.response = R_list_fenced
    /\ writers.verification_rules = {"load_context", "verify_migration"}
    /\ state.verification_rules = decode(R_list_fenced).value
    /\ Len(state.verification_rules.vals) = 1

\* the stages that decode a model response, and the field each stores into
DecodingStages ==
    {"generate_mapping", "generate_constraints", "generate_plan",
     "generate_verification_rules", "verify_migration"}

StoresInto(n) ==
    CASE n = "generate_mapping" -> "component_map"
      [] n = "generate_constraints" -> "constraints"
      [] n = "generate_plan" -> "migration_plan"
      [] n \in {"generate_verification_rules", "verify_migration"} ->
            "verification_rules"

\* the default a stage falls back to: empty, or for verify_migration the
\* rules it had
DefaultOf(n, s) ==
    CASE n = "generate_mapping" -> EmptyDict
      [] n = "verify_migration" -> s.verification_rules
      [] OTHER -> EmptyList

L_json == <<"j", "s", "o", "n">>

\* a response without its code-fence markers: a leading "```json" or "```"
\* and a trailing "```" are removed, and the white space around the rest
TrimFences(resp) ==
    LET t == Strip(resp)
        a == IF StartsWith(t, Fence \o L_json) THEN SubSeq(t, 8, Len(t))
             ELSE IF StartsWith(t, Fence) THEN SubSeq(t, 4, Len(t))
             ELSE t
        b == IF Len(a) >= 3 /\ HasAt(a, Len(a) - 2, Fence)
             THEN SubSeq(a, 1, Len(a) - 3) ELSE a
    IN Strip(b)

\* C19: every stage that decodes a model response removes the code-fence
\* markers and nothing else: when the response without its markers is
\* valid JSON the stage stores exactly the parsed value in its field, and
\* only otherwise does the field get the default.
C19_DecodeTrimsFencesOnly ==
    [][\A n \in DecodingStages :
          (calls' = calls + 1 /\ last'.node = n /\ last'.llm)
              => LET r == json_loads(TrimFences(last'.response))
                 IN state'[StoresInto(n)] =
                        IF r.ok THEN r.value ELSE DefaultOf(n, state)]_vars

\* the exact source key of the v2 chunks of a mapped file
V2SourceKey(v2_file) == S_v2_component \o <<":">> \o v2_file.lit

\* the tag has a v2 target: its v1 key has a mapping value (null and the
\* empty text count as none) that is not the sentinel "Not Found"
MappedToFile(tag) ==
    LET v2_file == V2FileOf(tag)
    IN /\ v2_file.kind = "string"
       /\ v2_file.lit # <<>>
       /\ v2_file.lit # S_Not_Found

TextsOf(docs) == [j \in 1..Len(docs) |-> docs[j].page_content]

\* the first n of the chunks of a ranked list docs that carry the source key,
\* in the order of the list
TopRanked(docs, source_key, n) ==
    LET at == {j \in 1..Len(docs) : docs[j].source = source_key}
        keep == {j \in at : Cardinality({m \in at : m <= j}) <= n}
    IN [c \in 1..Cardinality(keep) |->
           docs[CHOOSE j \in keep : Cardinality({m \in keep : m <= j}) = c]]

\* the ranked list a tag's v2 chunks come from: the candidates, or the full
\* scan when the candidates hold none
V2RankedFor(tag) ==
    IF \E j \in 1..Len(Candidates) :
           Candidates[j].source = V2SourceKey(V2FileOf(tag))
    THEN Candidates
    ELSE similarity_search(rq.by_empty, FullScanK)

\* C30: in a served request asking for k_pick >= 0 chunks per tag, each
\* distinct tag adds at most k_pick chunk texts to the v1 bucket and at most
\* k_pick to the v2 bucket, so each bucket has at most k_pick times the
\* number of distinct tags entries; a bucket lists the tags' chunks tag by
\* tag in first-occurrence order, and within a tag in rank order.
C30_BucketsBoundedAndOrdered ==
    (result.served /\ result.ok /\ rq.k_pick >= 0) =>
        /\ Len(result.hits) = Len(result.tags)
        /\ \A i \in 1..Len(result.tags) :
              LET tag == result.tags[i]
              IN /\ result.hits[i].tag = tag
                 /\ Len(result.hits[i].v1) <= rq.k_pick
                 /\ Len(result.hits[i].v2) <= rq.k_pick
                 /\ result.hits[i].v1 =
                        TopRanked(Candidates,
                                  S_v1_component \o <<":">> \o tag \o S_tsx,
                                  rq.k_pick)
                 /\ result.hits[i].v2 =
                        IF MappedToFile(tag)
                        THEN TopRanked(V2RankedFor(tag),
                                       V2SourceKey(V2FileOf(tag)), rq.k_pick)
                        ELSE <<>>
        /\ Len(result.v1_component) <= rq.k_pick * Len(result.tags)
        /\ Len(result.v2_component) <= rq.k_pick * Len(result.tags)
        /\ result.v1_component =
               Concat([i \in 1..Len(result.tags) |-> TextsOf(result.hits[i].v1)])
        /\ result.v2_component =
               Concat([i \in 1..Len(result.tags) |-> TextsOf(result.hits[i].v2)])
        /\ \A i, j \in 1..Len(result.tags) :
              i < j => FirstIndex(result.raw_tags, result.tags[i])
                           < FirstIndex(result.raw_tags, result.tags[j])

\* C30 witness: a served request with two tags, each adding one chunk to the
\* v2 bucket, where the chunk of the second tag ranks before the chunk of
\* the first tag among the candidates: the bucket follows the tag order.
C30_Witness ==
    /\ result.served
    /\ result.ok
    /\ rq.k_pick = 1
    /\ Len(result.tags) = 2
    /\ Len(Candidates) = 2
    /\ Len(result.hits[1].v2) = 1
    /\ Len(result.hits[2].v2) = 1
    /\ Candidates[1] = result.hits[2].v2[1]
    /\ Candidates[2] = result.hits[1].v2[1]
    /\ result.v2_component =
           <<Candidates[2].page_content, Candidates[1].page_content>>

(***************************************************************************)
(* Claims about load_context and analyze_components.                       *)
(***************************************************************************)
\* the constraint records load_context reads from the table, in query order
ConstraintRecords == load_context_units(db, "constraints").vals

\* C22: a call of load_context sets constraints to the value under the key
\* "constraints" when the constraints category holds a single record that
\* is an object with that key, to the list of all loaded constraint records
\* otherwise, and leaves constraints as it was when the category has no
\* record.
C22_ConstraintsUnwrapSingleRecord ==
    [][(calls' = calls + 1 /\ last'.node = "load_context")
          => state'.constraints =
                IF ConstraintRecords = <<>> THEN state.constraints
                ELSE IF /\ Len(ConstraintRecords) = 1
                        /\ IsDict(ConstraintRecords[1])
                        /\ HasKey(ConstraintRecords[1], K_constraints)
                     THEN DictGet(ConstraintRecords[1], K_constraints, JNull)
                     ELSE JArr(ConstraintRecords)]_vars

S_prop == <<"p", "r", "o", "p">>

\* the trimmed texts before the first colon of the lines of a documentation
\* text that hold a colon and, in any letter case, one of the tokens
HeadsOfLines(text, tokens) ==
    LET lines == SplitLines(text)
    IN {Strip(SubSeq(lines[i], 1, Find(lines[i], <<":">>, 1) - 1)) :
           i \in {j \in 1..Len(lines) :
                     /\ \E c \in 1..Len(lines[j]) : lines[j][c] = ":"
                     /\ \E t \in tokens : Contains(Lower(lines[j]), t)}}

\* the documentation text of a component record ("" when it has none)
DocOf(comp) == DictGet(comp, K_documentation, EmptyStr).lit

\* one component record after analyze_components: every entry but props as
\* before, and props a list without repetitions of exactly the names
AnalyzedAs(before, after, names) ==
    /\ IsDict(after)
    /\ HasKey(after, K_props)
    /\ \A k \in Range(before.keys) \cup Range(after.keys) :
          k # K_props => /\ HasKey(before, k) <=> HasKey(after, k)
                         /\ DictGet(after, k, JNull) = DictGet(before, k, JNull)
    /\ LET props == DictGet(after, K_props, JNull)
       IN /\ props.kind = "array"
          /\ {props.vals[i] : i \in 1..Len(props.vals)} = {JStr(n) : n \in names}
          /\ Len(props.vals) = Cardinality(names)

\* the names the claim gives for a documentation text
ClaimedNames(doc) == HeadsOfLines(doc, {S_prop, S_property})

\* the names with the tests the code makes: "props" for "prop", and no name
\* that is empty or reads "props" or "properties"
ExtractedNames(doc) ==
    {h \in HeadsOfLines(doc, {S_props, S_property}) :
        h # <<>> /\ Lower(h) \notin {S_props, S_properties}}

\* a returning call of analyze_components makes no model call, touches no
\* field but the component records, and gives each record the names of its
\* documentation as props: the claimed names, or the extracted ones
AnalyzeSets(as_claimed) ==
    (calls' = calls + 1 /\ last'.node = "analyze_components" /\ last'.ok) =>
        /\ ~last'.llm
        /\ \A f \in Fields \ {"v1_components", "v2_components"} :
              state'[f] = state[f]
        /\ \A f \in {"v1_components", "v2_components"} :
              /\ state'[f].keys = state[f].keys
              /\ \A i \in 1..Len(state[f].vals) :
                    AnalyzedAs(state[f].vals[i], state'[f].vals[i],
                               IF as_claimed
                               THEN ClaimedNames(DocOf(state[f].vals[i]))
                               ELSE ExtractedNames(DocOf(state[f].vals[i])))

\* C23 as stated: analyze_components makes no model call and sets the props
\* of every component to the deduplicated texts before the first colon of
\* exactly the documentation lines that hold a colon and the token "prop"
\* or "property" in any letter case, and changes nothing else.
C23_PropsFromPropLines == [][AnalyzeSets(TRUE)]_vars

\* C23 with the tests the code makes: the lines are those with a colon and
\* "props" or "property" in any letter case, and a name that is empty or
\* reads "props" or "properties" is left out.
C23_PropsFromPropsLines == [][AnalyzeSets(FALSE)]_vars

\* C23 witness: analyze_components has run on a component whose
\* documentation has a heading line "Props:", two lines naming size with
\* "property", and a line naming icon with "prop": its props are <<size>>.
C23_Witness ==
    /\ last.node = "analyze_components"
    /\ last.ok
    /\ \E i \in 1..Len(state.v1_components.vals) :
          LET comp == state.v1_components.vals[i]
          IN /\ DocOf(comp) = T_doc_v1
             /\ ClaimedNames(T_doc_v1) =
                    {<<"P", "r", "o", "p", "s">>, <<"s", "i", "z", "e">>,
                     <<"i", "c", "o", "n">>}
             /\ DictGet(comp, K_props, JNull) = JArr(<<JStr(<<"s", "i", "z", "e">>)>>)

(***************************************************************************)
(* Claims about the run of the default workflow.                           *)
(***************************************************************************)
\* the stage of the default chain that generates a planning field
GeneratorOf(f) ==
    CASE f = "constraints" -> "generate_constraints"
      [] f = "migration_plan" -> "generate_plan"
      [] f = "verification_rules" -> "generate_verification_rules"

PlanningFields == {"constraints", "migration_plan", "verification_rules"}

\* what a JSON-parsing stage may leave in its field: the parsed value of a
\* model response, or the empty list
ParsedOutputs == {decode(r).value : r \in {x \in LLMResponses : decode(x).ok}}

\* the value load_context read from the store for a planning field
LoadedValue(f) ==
    LET units == load_context_units(db, f)
    IN IF f = "constraints" THEN loaded_constraints(units, EmptyList)
       ELSE JArr(units.vals)

\* C24: when the default chain ends, constraints, migration_plan and
\* verification_rules each hold the parsed model output of their Generate*
\* stage or the empty list, and never what load_context read from the
\* store: each Generate* stage stores the parsed value of the response it
\* received or the empty list, no later stage touches the field, and all
\* three stages have run by the end.
C24_PlanningFieldsFromGenerators ==
    [][\A f \in PlanningFields :
          /\ (executed' # executed /\ last'.node = GeneratorOf(f) /\ last'.ok)
                => state'[f] = IF decode(last'.response).ok
                               THEN decode(last'.response).value
                               ELSE EmptyList
          /\ GeneratorOf(f) \in Range(executed) => state'[f] = state[f]
          /\ pc' = "END" =>
                /\ GeneratorOf(f) \in Range(executed')
                /\ state'[f] \in ParsedOutputs \cup {EmptyList}
                /\ LET loaded == LoadedValue(f)
                   IN loaded # EmptyList => state'[f] # loaded]_vars

\* C24 witness: the chain has ended on a store that held planning rows of
\* all three kinds; load_context had stored them, and the final state holds
\* the empty list for the plan (its response did not parse) and the parsed
\* response for the rules.
C24_Witness ==
    /\ pc = "END"
    /\ \A f \in PlanningFields :
          /\ LoadedValue(f) # EmptyList
          /\ writers[f] = {"load_context", GeneratorOf(f)}
    /\ state.migration_plan = EmptyList
    /\ state.verification_rules = decode(R_list_fenced).value
    /\ last.response = R_list_fenced

\* C25: in a run of the workflow started with a code snippet or a file, no
\* stage changes current_file or modified_code, so the result has
\* current_file as given and modified_code[current_file] equal to the input
\* code: what is printed as migrated code is the input.
C25_InputCodeUnchanged ==
    [][/\ state'.current_file = state.current_file
       /\ state'.modified_code = state.modified_code
       /\ writers'.current_file = {}
       /\ writers'.modified_code = {}
       /\ pc' = "END" =>
             (Truthy(state'.current_file) =>
                 /\ state'.current_file.kind = "string"
                 /\ HasKey(state'.modified_code, state'.current_file.lit))]_vars

\* C25 witness: the workflow started with the code snippet has run its six
\* stages to the end and the state still holds the snippet under
\* "code_snippet".
C25_Witness ==
    /\ pc = "END"
    /\ executed = StageOrder
    /\ state.current_file = JStr(S_code_snippet)
    /\ state.modified_code = DictSet(EmptyDict, S_code_snippet, JStr(T_snippet))

\* C26: every request to /migrate reaches the language-model call and is
\* answered with migrated code: migrate_with_llm, called with a context and
\* no state, does not fail before invoking the model.
C26_MigrateReachesModel ==
    last.node = "migrate" => (last.ok /\ last.llm)

(***************************************************************************)
(* Claims about main_update_context.                                       *)
(***************************************************************************)

\* what extract_component_details finds in the clone of a version, if any
DetailsOf(rs, version) ==
    IF rs[version].cloned THEN extract_component_details(rs[version], version)
    ELSE EmptyDict

\* the repository whose analysis a component of the new state comes from:
\* new_state["components"].update(v2_details) comes last
OriginOf(rs, name) == IF HasKey(DetailsOf(rs, "v2"), name) THEN "v2" ELSE "v1"

\* the component units a committed run added: no component unit of that
\* name was in the table before
AddedComponents ==
    {i \in 1..Len(db') :
        /\ IsComponentsType(db'[i].type)
        /\ \A j \in 1..Len(db) :
              IsComponentsType(db[j].type) => db[j].name # db'[i].name}

\* C27: a component that is not yet in the database is stored by
\* main_update_context with type v1_components when it comes from the
\* analysis of the v1 repository, and with v2_components when it comes
\* from that of the v2 repository.
C27_NewComponentTypedByOrigin ==
    [][update'.status = "committed" =>
          \A i \in AddedComponents :
             db'[i].type = ComponentsType(OriginOf(repos', db'[i].name))]_vars

\* the component units and the doc units of a table
ComponentUnits(rows) == {i \in 1..Len(rows) : IsComponentsType(rows[i].type)}
DocUnits(rows) ==
    {i \in 1..Len(rows) :
        VersionOf(rows[i].type) # "none" /\ ~IsComponentsType(rows[i].type)}

\* C28: after main_update_context commits, every component file name of
\* the new analysis has a unit whose content equals the analysed content,
\* no component unit remains whose name is absent from the new analysis,
\* and the same holds for the doc units, by version and name.
C28_StoreAgreesWithAnalysis ==
    [][update'.status = "committed" =>
          LET new_state == get_new_analysis_state(repos')
              comps == new_state.components
          IN /\ \A k \in 1..Len(comps.keys) :
                   \E i \in ComponentUnits(db') :
                      /\ db'[i].name = comps.keys[k]
                      /\ json_dumps(LoadedContent(db'[i]), TRUE)
                            = json_dumps(comps.vals[k], TRUE)
             /\ \A i \in ComponentUnits(db') : HasKey(comps, db'[i].name)
             /\ \A d \in Range(new_state.docs) :
                   \E i \in DocUnits(db') :
                      /\ <<VersionOf(db'[i].type), db'[i].name>> = d.key
                      /\ db'[i].content = d.content
             /\ \A i \in DocUnits(db') :
                   \E d \in Range(new_state.docs) :
                      d.key = <<VersionOf(db'[i].type), db'[i].name>>]_vars

CloneFailures == {"clone_failed", "clone_error"}
PullFailures == {"pull_failed", "pull_error"}

\* C29: when cloning a repository fails, main_update_context aborts before
\* the database is opened and the table is as it was; a failed pull of a
\* cloned repository does not abort: the local copy stays as it was, the run
\* goes on to the database, and a commit stores the comparison with the
\* analysis of the local copies.
C29_CloneFailureAbortsPullFailureProceeds ==
    [][update'.runs # update.runs =>
          LET git == update'.git
          IN /\ (git[1] \in CloneFailures \/ git[2] \in CloneFailures)
                   => /\ update'.status = "aborted"
                      /\ ~update'.opened
                      /\ db' = db
             /\ (git[1] \notin CloneFailures /\ git[2] \notin CloneFailures)
                   => /\ update'.status # "aborted"
                      /\ update'.opened
             /\ git[1] \in PullFailures => repos'.v1 = repos.v1
             /\ git[2] \in PullFailures => repos'.v2 = repos.v2
             /\ (git[1] \in PullFailures /\ git[2] \in PullFailures
                    /\ update'.status = "committed")
                   => db' = compare_and_update(db, get_new_analysis_state(repos)).rows]_vars

\* C29 witness: the pull of v1 failed and the run went on to v2, whose clone
\* failed; the run was aborted with units in the table
C29_Witness ==
    /\ update.status = "aborted"
    /\ update.git[1] \in PullFailures
    /\ update.git[2] \in CloneFailures
    /\ ~update.opened
    /\ Len(db) > 1

====
